---- MODULE Spec2Model ----
(***************************************************************************)
(* State-machine model of the CV endpoint: the profile document store and  *)
(* its section / category repositories (lib/storage/cv.js), the schema     *)
(* migrator for interests, the dashboard bulk save, and the page-builder   *)
(* preset matcher.                                                         *)
(*                                                                         *)
(* JavaScript values.  A scalar (string) is a TLA+ string; the string      *)
(* undefined stands for the JS values undefined and null (the driver       *)
(* stores undefined as null).  A value in a field position is tagged:      *)
(* Arr(s) is an array with the elements s, Obj(m) a plain object with the  *)
(* own keys DOMAIN m, Missing an absent (undefined) field.                 *)
(***************************************************************************)
EXTENDS Integers, Sequences, FiniteSets, TLC

VARIABLES
    stored,          \* cvData collection: the document with _id "cv", or null
    clock,           \* the wall clock: it advances with every call, new Date() reads it
    last,            \* the last repository call: its arguments, the document it loaded and returned
    migInput,        \* an interests / interestTypes pair handed to the migrator
    migOnce,         \* the pair after one migration
    migTwice,        \* the pair after the migration of migOnce
    migStage,        \* how many migrations have run on migInput
    presets,         \* a preset catalog handed to detectActivePreset
    config,          \* a page config handed to detectActivePreset
    activePresetId,  \* the result of detectActivePreset, "pending" before the call
    cvFile,          \* content of {contentDir}/.indiekit/cv.json, NoFile before the first write
    pageStored,      \* cvPageConfig collection: the document with _id "cv-page", or null
    pageFile,        \* content of {contentDir}/.indiekit/cv-page.json
    fault,           \* the condition of the environment: "none", "backend" or "file"
    response,        \* the response of the last controller call
    racePc,          \* per concurrent request: "idle", "loaded" or "saved"
    raceData,        \* per concurrent request: the document it holds in memory
    raceLog          \* the steps of the concurrent requests, in order

vars == <<stored, clock, last, migInput, migOnce, migTwice, migStage,
          presets, config, activePresetId, cvFile, pageStored, pageFile, fault,
          response, racePc, raceData, raceLog>>

profileVars == <<stored, clock, last, cvFile>>
serviceVars == <<pageStored, pageFile, fault, response>>
raceVars == <<racePc, raceData, raceLog>>
migVars == <<migInput, migOnce, migTwice, migStage>>
presetVars == <<presets, config, activePresetId>>

-----------------------------------------------------------------------------
(* Bounds *)

MaxClock == 1        \* repository calls per run of Spec
MaxSkillCalls == 3   \* skill-category calls per run of SpecSkills
MaxLen == 3          \* longest stored list / legacy interests list drawn as an input
MaxSections == 2     \* longest sections / sidebar list of a page config
MaxPageCalls == 2    \* page-builder calls per run of SpecPage
MaxPresets == 2      \* longest preset catalog

-----------------------------------------------------------------------------
(* JavaScript values *)

undefined == "undefined"
null == [kind |-> "null"]            \* findOne found no document
NoStamp == 0                         \* lastUpdated: null

\* A JS number that is an array index argument: Number.parseInt gives an
\* integer or NaN.
Num(n) == [nan |-> FALSE, n |-> n]
NaN == [nan |-> TRUE, n |-> 0]

Arr(s) == [kind |-> "array", val |-> s]
Text(t) == [kind |-> "string", val |-> t]     \* a string in a field position
Obj(m) == [kind |-> "object", val |-> m]
Missing == [kind |-> "undefined", val |-> <<>>]

EmptyMap == [k \in {} |-> undefined]

isArray(v) == v.kind = "array"
isObject(v) == v.kind \in {"array", "object"}   \* typeof v === "object" (v is never null here)
NullField == [kind |-> "null", val |-> <<>>]   \* null in a field position
Truthy(v) == v.kind \notin {"undefined", "null"}
TruthyStr(s) == s \notin {"", undefined}

\* a || b on field values, a || b on scalars
OrElse(a, b) == IF Truthy(a) THEN a ELSE b
OrElseStr(a, b) == IF TruthyStr(a) THEN a ELSE b

\* data.name of an in-memory object: undefined when the property does not exist
Field(data, name) == IF name \in DOMAIN data THEN data[name] ELSE Missing

\* obj && obj[key] read for its truthiness.  Every object inherits __proto__
\* (its prototype, truthy); an array has no other string keys.
\* HasItems: the values of obj are arrays (always truthy).
\* HasType: the values of obj are strings (truthy unless empty).
HasItems(obj, key) ==
    /\ Truthy(obj)
    /\ \/ key = "__proto__"
       \/ obj.kind = "object" /\ key \in DOMAIN obj.val

HasType(obj, key) ==
    /\ Truthy(obj)
    /\ \/ key = "__proto__"
       \/ obj.kind = "object" /\ key \in DOMAIN obj.val /\ TruthyStr(obj.val[key])

\* types[key] of a type map: undefined when there is no such key
Lookup(obj, key) ==
    IF obj.kind = "object" /\ key \in DOMAIN obj.val THEN obj.val[key] ELSE undefined

MapSet(m, key, value) == [k \in (DOMAIN m) \cup {key} |-> IF k = key THEN value ELSE m[k]]
MapDelete(m, key) == [k \in (DOMAIN m) \ {key} |-> m[k]]

\* obj[key] = value on a plain object: assigning __proto__ sets the prototype
\* (an object value) or is ignored (a scalar); it never creates an own key.
SetKey(obj, key, value) ==
    IF key = "__proto__" THEN obj ELSE Obj(MapSet(obj.val, key, value))

\* delete obj[key]: removes an own key, a no-op otherwise
DeleteKey(obj, key) ==
    IF obj.kind = "object" THEN Obj(MapDelete(obj.val, key)) ELSE obj

-----------------------------------------------------------------------------
(* Arrays: 0-based reads and writes on a sequence, as JS does them *)

\* arr[i]: undefined outside the elements
ArrayGet(s, i) ==
    IF ~i.nan /\ i.n >= 0 /\ i.n < Len(s) THEN s[i.n + 1] ELSE undefined

\* arr[i] = v: an index at or past the end extends the array, the holes read
\* undefined; a negative or NaN index sets a property that is no element
ArraySet(s, i, v) ==
    IF i.nan \/ i.n < 0 THEN s
    ELSE IF i.n < Len(s) THEN [s EXCEPT ![i.n + 1] = v]
    ELSE s \o [k \in 1 .. (i.n - Len(s)) |-> undefined] \o <<v>>

\* variant: the last element is removed
ArrayPop(s, i) == SubSeq(s, 1, Len(s) - 1)

\* arr.splice(i, 1) for 0 <= i < length
ArrayRemove(s, i) == SubSeq(s, 1, i.n) \o SubSeq(s, i.n + 2, Len(s))

\* index >= 0 && index < arr.length
InBounds(s, i) == ~i.nan /\ i.n >= 0 /\ i.n < Len(s)

-----------------------------------------------------------------------------
(* Schema migrator: lib/storage/cv.js *)

\* variant: the test is made on "personal" instead of "work"
CategoryByPersonal(type) == IF type = "personal" THEN "Personal" ELSE "Work"

Category(type) == IF type = "work" THEN "Work" ELSE "Personal"

RECURSIVE GroupInterests(_, _, _)
GroupInterests(list, types, groups) ==
    IF list = <<>> THEN groups
    ELSE LET interest == Head(list)
             type == OrElseStr(Lookup(types, interest), "personal")
             category == Category(type)
             started == IF category \in DOMAIN groups THEN groups
                        ELSE MapSet(groups, category, <<>>)
         IN  GroupInterests(Tail(list), types,
                 MapSet(started, category, Append(started[category], interest)))

\* variant: a category keeps the classifier of its first item
RECURSIVE GroupTypesFirst(_, _, _)
GroupTypesFirst(list, types, categoryTypes) ==
    IF list = <<>> THEN categoryTypes
    ELSE LET interest == Head(list)
             type == OrElseStr(Lookup(types, interest), "personal")
             category == Category(type)
         IN  GroupTypesFirst(Tail(list), types,
                 IF category \in DOMAIN categoryTypes THEN categoryTypes
                 ELSE MapSet(categoryTypes, category, type))

RECURSIVE GroupTypes(_, _, _)
GroupTypes(list, types, categoryTypes) ==
    IF list = <<>> THEN categoryTypes
    ELSE LET interest == Head(list)
             type == OrElseStr(Lookup(types, interest), "personal")
             category == Category(type)
         IN  GroupTypes(Tail(list), types, MapSet(categoryTypes, category, type))

migrateInterests(interests, interestTypes) ==
    IF ~Truthy(interests) THEN Obj(EmptyMap)
    ELSE IF ~isArray(interests) THEN (IF isObject(interests) THEN interests ELSE Obj(EmptyMap))
    ELSE IF Len(interests.val) = 0 THEN Obj(EmptyMap)
    ELSE Obj(GroupInterests(interests.val, OrElse(interestTypes, Obj(EmptyMap)), EmptyMap))

\* variant: the types of already migrated interests are not passed through
migrateInterestTypesAfresh(interests, interestTypes) ==
    IF ~Truthy(interests) THEN Obj(EmptyMap)
    ELSE IF ~isArray(interests) THEN Obj(EmptyMap)
    ELSE IF Len(interests.val) = 0 THEN Obj(EmptyMap)
    ELSE Obj(GroupTypes(interests.val, OrElse(interestTypes, Obj(EmptyMap)), EmptyMap))

migrateInterestTypes(interests, interestTypes) ==
    IF ~Truthy(interests) THEN Obj(EmptyMap)
    ELSE IF ~isArray(interests) THEN (IF isObject(interestTypes) THEN interestTypes ELSE Obj(EmptyMap))
    ELSE IF Len(interests.val) = 0 THEN Obj(EmptyMap)
    ELSE Obj(GroupTypes(interests.val, OrElse(interestTypes, Obj(EmptyMap)), EmptyMap))

-----------------------------------------------------------------------------
(* Document store: lib/storage/cv.js *)

getCvData == stored

\* variant: interests are stored as they are given, a flat list as a flat list
cvDocumentFlatInterests(data, now) ==
    [_id |-> "cv",
     experience |-> OrElse(Field(data, "experience"), Arr(<<>>)),
     projects |-> OrElse(Field(data, "projects"), Arr(<<>>)),
     skills |-> OrElse(Field(data, "skills"), Obj(EmptyMap)),
     skillTypes |-> OrElse(Field(data, "skillTypes"), Obj(EmptyMap)),
     education |-> OrElse(Field(data, "education"), Arr(<<>>)),
     languages |-> OrElse(Field(data, "languages"), Arr(<<>>)),
     interests |-> OrElse(Field(data, "interests"), Arr(<<>>)),
     interestTypes |-> OrElse(Field(data, "interestTypes"), Obj(EmptyMap)),
     lastUpdated |-> now]

\* variant: a lastUpdated the caller supplies is kept
cvDocumentKeepingStamp(data, now) ==
    [_id |-> "cv",
     experience |-> OrElse(Field(data, "experience"), Arr(<<>>)),
     projects |-> OrElse(Field(data, "projects"), Arr(<<>>)),
     skills |-> OrElse(Field(data, "skills"), Obj(EmptyMap)),
     skillTypes |-> OrElse(Field(data, "skillTypes"), Obj(EmptyMap)),
     education |-> OrElse(Field(data, "education"), Arr(<<>>)),
     languages |-> OrElse(Field(data, "languages"), Arr(<<>>)),
     interests |-> migrateInterests(Field(data, "interests"), Field(data, "interestTypes")),
     interestTypes |-> migrateInterestTypes(Field(data, "interests"), Field(data, "interestTypes")),
     lastUpdated |-> IF "lastUpdated" \in DOMAIN data THEN data.lastUpdated ELSE now]

\* the document saveCvData builds from data at the time now
cvDocument(data, now) ==
    [_id |-> "cv",
     experience |-> OrElse(Field(data, "experience"), Arr(<<>>)),
     projects |-> OrElse(Field(data, "projects"), Arr(<<>>)),
     skills |-> OrElse(Field(data, "skills"), Obj(EmptyMap)),
     skillTypes |-> OrElse(Field(data, "skillTypes"), Obj(EmptyMap)),
     education |-> OrElse(Field(data, "education"), Arr(<<>>)),
     languages |-> OrElse(Field(data, "languages"), Arr(<<>>)),
     interests |-> migrateInterests(Field(data, "interests"), Field(data, "interestTypes")),
     interestTypes |-> migrateInterestTypes(Field(data, "interests"), Field(data, "interestTypes")),
     lastUpdated |-> now]

getDefaultCvData ==
    [experience |-> Arr(<<>>),
     projects |-> Arr(<<>>),
     skills |-> Obj(EmptyMap),
     skillTypes |-> Obj(EmptyMap),
     education |-> Arr(<<>>),
     languages |-> Arr(<<>>),
     interests |-> Obj(EmptyMap),
     interestTypes |-> Obj(EmptyMap),
     lastUpdated |-> NoStamp]

\* (await getCvData(application)) || getDefaultCvData()
LoadOrDefault == IF getCvData = null THEN getDefaultCvData ELSE getCvData

\* data[name] = value: a name that is no field of the document becomes a
\* property saveCvData never reads
WithField(data, name, value) ==
    IF name \in DOMAIN data THEN [data EXCEPT ![name] = value] ELSE data

Now == clock + 1

\* The environment.  "backend": every call on a collection throws.  "file":
\* writeFileSync throws.
Faults == {"none", "backend", "file"}
NoFile == [kind |-> "no file"]
Rejected(why) == [error |-> why]      \* the promise of the call is rejected

\* variant: an update that sets the non-empty fields and keeps the others
updateNonEmpty(current, document) ==
    IF current = null THEN document
    ELSE [f \in DOMAIN document |->
             IF f \in {"_id", "lastUpdated"} THEN document[f]
             ELSE IF isArray(document[f]) /\ Len(document[f].val) = 0 THEN current[f]
             ELSE document[f]]

\* collection.replaceOne({ _id }, document, { upsert: true })
replaceOne(current, document) == document

\* const { _id, ...fileData } = data
fileData(data) == [f \in (DOMAIN data) \ {"_id"} |-> data[f]]

\* variant: the export file is left as it is
writeNothing(file, data) == file

\* writeCvFile(application, data): the content of cv.json after the write
writeCvFile(file, data) == fileData(data)

\* a call whose first call on the collection throws
failedCall(call, data) ==
    /\ clock' = Now
    /\ stored' = stored
    /\ cvFile' = cvFile
    /\ last' = [call |-> call, before |-> stored, data |-> data, saved |-> FALSE,
                returned |-> Rejected("backend"), outcome |-> "error",
                fileBefore |-> cvFile]

\* saveCvData(application, data): replaceOne with upsert, then the export
\* file, then the document is returned.  An exception of either leaves the
\* function at that point.
saveCvData(call, data) ==
    IF fault = "backend" THEN failedCall(call, data)
    ELSE /\ clock' = Now
         /\ stored' = replaceOne(stored, cvDocument(data, Now))
         /\ IF fault = "file"
            THEN /\ cvFile' = cvFile
                 /\ last' = [call |-> call, before |-> stored, data |-> data,
                             saved |-> TRUE, returned |-> Rejected("file"),
                             outcome |-> "error", fileBefore |-> cvFile]
            ELSE /\ cvFile' = writeCvFile(cvFile, cvDocument(data, Now))
                 /\ last' = [call |-> call, before |-> stored, data |-> data,
                             saved |-> TRUE, returned |-> cvDocument(data, Now),
                             outcome |-> "ok", fileBefore |-> cvFile]

\* a call that returns data without saving
returnOnly(call, data) ==
    IF fault = "backend" THEN failedCall(call, data)
    ELSE /\ clock' = Now
         /\ stored' = stored
         /\ cvFile' = cvFile
         /\ last' = [call |-> call, before |-> stored, data |-> data,
                     saved |-> FALSE, returned |-> data, outcome |-> "ok",
                     fileBefore |-> cvFile]

-----------------------------------------------------------------------------
(* Ordered-section repository: lib/storage/cv.js *)

\* variant: the item is put in front of the list
unshifted(data, section, item) ==
    LET reset == IF ~isArray(Field(data, section))
                 THEN WithField(data, section, Arr(<<>>)) ELSE data
    IN  WithField(reset, section, Arr(<<item>> \o Field(reset, section).val))

\* data after if (!Array.isArray(data[section])) data[section] = [];
\* data[section].push(item)
pushed(data, section, item) ==
    LET reset == IF ~isArray(Field(data, section))
                 THEN WithField(data, section, Arr(<<>>)) ELSE data
    IN  WithField(reset, section, Arr(Append(Field(reset, section).val, item)))

addToSection(section, item) ==
    saveCvData([op |-> "addToSection", section |-> section, item |-> item],
               pushed(LoadOrDefault, section, item))

\* variant: the element is assigned whatever the index is
updateInSectionUnguarded(section, index, item) ==
    LET data == LoadOrDefault
        arr == Field(data, section)
        updated == IF isArray(arr)
                   THEN WithField(data, section, Arr(ArraySet(arr.val, index, item)))
                   ELSE data
    IN  saveCvData([op |-> "updateInSection", section |-> section, index |-> index,
                    item |-> item], updated)

updateInSection(section, index, item) ==
    LET data == LoadOrDefault
        arr == Field(data, section)
        updated == IF isArray(arr) /\ InBounds(arr.val, index)
                   THEN WithField(data, section, Arr(ArraySet(arr.val, index, item)))
                   ELSE data
    IN  saveCvData([op |-> "updateInSection", section |-> section, index |-> index,
                    item |-> item], updated)

removeFromSection(section, index) ==
    LET data == LoadOrDefault
        arr == Field(data, section)
        removed == IF isArray(arr) /\ InBounds(arr.val, index)
                   THEN WithField(data, section, Arr(ArrayRemove(arr.val, index)))
                   ELSE data
    IN  saveCvData([op |-> "removeFromSection", section |-> section, index |-> index], removed)

\* index - 1 or index + 1; NaN stays NaN
TargetIndex(index, direction) ==
    IF index.nan THEN NaN
    ELSE IF direction = "up" THEN Num(index.n - 1) ELSE Num(index.n + 1)

\* variant: the upper test is > instead of >=
TargetOutsideLax(s, targetIndex) ==
    ~targetIndex.nan /\ (targetIndex.n < 0 \/ targetIndex.n > Len(s))

\* targetIndex < 0 || targetIndex >= arr.length: both false for NaN
TargetOutside(s, targetIndex) ==
    ~targetIndex.nan /\ (targetIndex.n < 0 \/ targetIndex.n >= Len(s))

\* variant: arr[index] = arr[targetIndex] alone
SwapOneSided(s, index, targetIndex) == ArraySet(s, index, ArrayGet(s, targetIndex))

\* [arr[index], arr[targetIndex]] = [arr[targetIndex], arr[index]]
Swap(s, index, targetIndex) ==
    ArraySet(ArraySet(s, index, ArrayGet(s, targetIndex)), targetIndex, ArrayGet(s, index))

moveInSection(section, index, direction) ==
    LET data == LoadOrDefault
        arr == Field(data, section)
        call == [op |-> "moveInSection", section |-> section, index |-> index,
                 direction |-> direction]
        targetIndex == TargetIndex(index, direction)
    IN  IF ~isArray(arr) THEN returnOnly(call, data)
        ELSE IF TargetOutside(arr.val, targetIndex) THEN returnOnly(call, data)
        ELSE saveCvData(call, WithField(data, section, Arr(Swap(arr.val, index, targetIndex))))

-----------------------------------------------------------------------------
(* Category repository: lib/storage/cv.js *)

\* typeof map !== "object" || Array.isArray(map): reset to {}
AsMap(v) == IF ~isObject(v) \/ isArray(v) THEN Obj(EmptyMap) ELSE v

addCategory(data, itemsField, typesField, category, items, type) ==
    LET itemMap == AsMap(Field(data, itemsField))
        typeMap == AsMap(Field(data, typesField))
    IN  WithField(WithField(data, itemsField, SetKey(itemMap, category, items)),
                  typesField, SetKey(typeMap, category, OrElseStr(type, "personal")))

\* variant: a rename deletes the old key from the item map only
editCategoryKeepingType(data, itemsField, typesField, oldCategory, newCategory, items, type) ==
    LET itemMap == AsMap(Field(data, itemsField))
        typeMap == AsMap(Field(data, typesField))
        itemsKept == IF oldCategory # newCategory /\ HasItems(itemMap, oldCategory)
                     THEN DeleteKey(itemMap, oldCategory) ELSE itemMap
    IN  WithField(WithField(data, itemsField, SetKey(itemsKept, newCategory, items)),
                  typesField, SetKey(typeMap, newCategory, OrElseStr(type, "personal")))

editCategory(data, itemsField, typesField, oldCategory, newCategory, items, type) ==
    LET itemMap == AsMap(Field(data, itemsField))
        typeMap == AsMap(Field(data, typesField))
        itemsKept == IF oldCategory # newCategory /\ HasItems(itemMap, oldCategory)
                     THEN DeleteKey(itemMap, oldCategory) ELSE itemMap
        typesKept == IF oldCategory # newCategory /\ HasType(typeMap, oldCategory)
                     THEN DeleteKey(typeMap, oldCategory) ELSE typeMap
    IN  WithField(WithField(data, itemsField, SetKey(itemsKept, newCategory, items)),
                  typesField, SetKey(typesKept, newCategory, OrElseStr(type, "personal")))

removeCategory(data, itemsField, typesField, category) ==
    LET itemMap == Field(data, itemsField)
        typeMap == Field(data, typesField)
        itemsKept == IF HasItems(itemMap, category) THEN DeleteKey(itemMap, category) ELSE itemMap
        typesKept == IF HasType(typeMap, category) THEN DeleteKey(typeMap, category) ELSE typeMap
    IN  WithField(WithField(data, itemsField, itemsKept), typesField, typesKept)

addSkillCategory(category, items, skillType) ==
    saveCvData([op |-> "addSkillCategory", category |-> category, items |-> items,
                type |-> skillType],
               addCategory(LoadOrDefault, "skills", "skillTypes", category, items, skillType))

editSkillCategory(oldCategory, newCategory, items, skillType) ==
    saveCvData([op |-> "editSkillCategory", oldCategory |-> oldCategory,
                newCategory |-> newCategory, items |-> items, type |-> skillType],
               editCategory(LoadOrDefault, "skills", "skillTypes", oldCategory, newCategory,
                            items, skillType))

removeSkillCategory(category) ==
    saveCvData([op |-> "removeSkillCategory", category |-> category],
               removeCategory(LoadOrDefault, "skills", "skillTypes", category))

addInterestCategory(category, items, interestType) ==
    saveCvData([op |-> "addInterestCategory", category |-> category, items |-> items,
                type |-> interestType],
               addCategory(LoadOrDefault, "interests", "interestTypes", category, items,
                           interestType))

editInterestCategory(oldCategory, newCategory, items, interestType) ==
    saveCvData([op |-> "editInterestCategory", oldCategory |-> oldCategory,
                newCategory |-> newCategory, items |-> items, type |-> interestType],
               editCategory(LoadOrDefault, "interests", "interestTypes", oldCategory,
                            newCategory, items, interestType))

removeInterestCategory(category) ==
    saveCvData([op |-> "removeInterestCategory", category |-> category],
               removeCategory(LoadOrDefault, "interests", "interestTypes", category))

-----------------------------------------------------------------------------
(* Dashboard bulk save: lib/controllers/dashboard.js *)

\* A form string is its segments between commas; s.trim() of a segment
Trim(segment) ==
    IF segment = " " THEN ""
    ELSE IF segment = " Docker" THEN "Docker"
    ELSE segment

RECURSIVE TrimAll(_)
TrimAll(segments) ==
    IF segments = <<>> THEN <<>> ELSE <<Trim(Head(segments))>> \o TrimAll(Tail(segments))

IsNonEmpty(segment) == segment # ""

\* value.split(",").map((s) => s.trim()).filter(Boolean)
parseCommaList(segments) == SelectSeq(TrimAll(segments), IsNonEmpty)

\* Object.values of an index-keyed object { "0": .., "1": .. }
RECURSIVE ValuesFrom(_, _)
ValuesFrom(m, keys) ==
    IF keys = <<>> THEN <<>>
    ELSE (IF Head(keys) \in DOMAIN m THEN <<m[Head(keys)]>> ELSE <<>>) \o ValuesFrom(m, Tail(keys))

ObjectValues(m) == ValuesFrom(m, <<"0", "1", "2">>)

\* A string field is modelled by what JSON.parse makes of it: Text(v) parses
\* to v, Text(Missing) is no JSON.
parseArrayField(body, fieldName) ==
    LET field == Field(body, fieldName)
    IN  IF ~Truthy(field) THEN Arr(<<>>)
        ELSE IF isArray(field) THEN field
        ELSE IF field.kind = "string"
             THEN (IF isArray(field.val) THEN field.val ELSE Arr(<<>>))
        ELSE Arr(ObjectValues(field.val))

\* the entries of a category form field: a string value is split, an array
\* kept, any other value dropped
parseCategoryEntries(m) ==
    LET kept == {c \in DOMAIN m : m[c].kind \in {"string", "array"}}
    IN  [c \in kept |-> IF m[c].kind = "string" THEN parseCommaList(m[c].val) ELSE m[c].val]

parseSkillsField(body) ==
    LET skills == Field(body, "skills")
    IN  IF ~Truthy(skills) \/ ~isObject(skills) THEN Obj(EmptyMap)
        ELSE Obj(parseCategoryEntries(skills.val))

parseSkillTypesField(body) ==
    LET skillTypes == Field(body, "skillTypes")
    IN  IF ~Truthy(skillTypes) \/ ~isObject(skillTypes) THEN Obj(EmptyMap) ELSE skillTypes

parseInterestsField(body) ==
    LET interests == Field(body, "interests")
    IN  IF ~Truthy(interests) \/ ~isObject(interests) THEN Obj(EmptyMap)
        ELSE Obj(parseCategoryEntries(interests.val))

parseInterestTypesField(body) ==
    LET interestTypes == Field(body, "interestTypes")
    IN  IF ~Truthy(interestTypes) \/ ~isObject(interestTypes) THEN Obj(EmptyMap)
        ELSE interestTypes

\* the data object POST /save builds from the request body
saveData(body) ==
    [experience |-> parseArrayField(body, "experience"),
     projects |-> parseArrayField(body, "projects"),
     skills |-> parseSkillsField(body),
     skillTypes |-> parseSkillTypesField(body),
     education |-> parseArrayField(body, "education"),
     languages |-> parseArrayField(body, "languages"),
     interests |-> parseInterestsField(body),
     interestTypes |-> parseInterestTypesField(body)]

\* POST /save
save(body) == saveCvData([op |-> "save", body |-> body], saveData(body))

-----------------------------------------------------------------------------
(* Inputs *)

Entries == {"e1", "e9"}                       \* entries of the ordered sections
Categories == {"A", "B", "__proto__"}         \* category names
Classifiers == {"personal", "work"}
TypeArgs == Classifiers \cup {undefined, ""}  \* a classifier argument may be left out or empty
SectionArgs == {"experience", "interests", "skills", "bogus"}
IndexArgs == {Num(n) : n \in -1 .. MaxLen} \cup {NaN}
Directions == {"up", "down"}
ItemLists == {<<>>, <<"Docker", "Chess">>}

OneKey(k, v) == [x \in {k} |-> v]
TwoKeys(k1, v1, k2, v2) == [x \in {k1, k2} |-> IF x = k1 THEN v1 ELSE v2]

\* documents written by the release that kept interests as a flat list
LegacyDocument(skillTypes, interests, interestTypes) ==
    [_id |-> "cv",
     experience |-> Arr(<<"e1", "e2", "e3">>),
     projects |-> Arr(<<"e1">>),
     skills |-> Obj(OneKey("A", <<"Docker">>)),
     skillTypes |-> Obj(skillTypes),
     education |-> Arr(<<>>),
     languages |-> Arr(<<"e2", "e1">>),
     interests |-> Arr(interests),
     interestTypes |-> Obj(interestTypes),
     lastUpdated |-> 1]

LegacyDocuments ==
    {LegacyDocument(EmptyMap, <<>>, EmptyMap),
     LegacyDocument(OneKey("A", "work"), <<"Chess", "Docker">>, OneKey("Docker", "work")),
     LegacyDocument(EmptyMap, <<"Docker", "Chess">>, EmptyMap)}

\* request bodies of POST /save
Body(experience, skills, skillTypes, interests, interestTypes) ==
    [experience |-> experience, languages |-> Arr(<<"e2", "e1">>),
     skills |-> skills, skillTypes |-> skillTypes,
     interests |-> interests, interestTypes |-> interestTypes]

FilledBody ==
    Body(Arr(<<"e1", "e2", "e3">>),
         Obj(TwoKeys("A", Text(<<"Chess", " ", " Docker">>), "B", Arr(<<"Chess">>))),
         Obj(TwoKeys("A", "work", "B", "personal")),
         Obj(TwoKeys("A", Arr(<<"Chess">>), "B", Text(<<"Docker">>))),
         Obj(TwoKeys("A", "personal", "B", "work")))

EmptyTypeBody ==
    Body(Text(Arr(<<"e2">>)),
         Obj(OneKey("A", Arr(<<"Chess">>))), Obj(OneKey("A", "")),
         Obj(OneKey("A", Arr(<<"Chess">>))), Obj(OneKey("A", "")))

\* two categories, the first with an empty classifier
MixedTypeBody ==
    Body(Arr(<<"e1", "e2">>),
         Obj(TwoKeys("A", Arr(<<"Chess">>), "B", Arr(<<"Docker">>))),
         Obj(TwoKeys("A", "", "B", "work")),
         Obj(TwoKeys("A", Arr(<<"Chess">>), "B", Arr(<<"Docker">>))),
         Obj(TwoKeys("A", "", "B", "work")))

UntypedBody ==
    Body(Obj(TwoKeys("0", "e2", "1", "e1")),
         Obj(TwoKeys("A", Arr(<<"Chess">>), "B", Obj(EmptyMap))), Missing,
         Text(<<"Chess", "Docker">>), Arr(<<"work">>))

EmptyBody == [k \in {} |-> Missing]

Bodies == {EmptyBody, FilledBody, EmptyTypeBody, UntypedBody,
           [experience |-> Text(Missing)]}

\* documents this release has written: the bulk saves of an earlier session
SavedDocuments == {cvDocument(saveData(body), 1) : body \in {FilledBody, EmptyTypeBody, MixedTypeBody}}

-----------------------------------------------------------------------------
(* Specifications *)

NoCall ==
    [call |-> [op |-> "none"], before |-> null, data |-> getDefaultCvData,
     saved |-> FALSE, returned |-> getDefaultCvData, outcome |-> "none",
     fileBefore |-> NoFile]

IdleMigrator ==
    /\ migInput = [interests |-> Missing, interestTypes |-> Missing]
    /\ migOnce = migInput
    /\ migTwice = migInput
    /\ migStage = 0

IdleMatcher ==
    /\ presets = <<>>
    /\ config = [layout |-> "single-column"]
    /\ activePresetId = "pending"

NoResponse == [kind |-> "none"]

IdleService ==
    /\ pageStored = null
    /\ pageFile = NoFile
    /\ fault = "none"
    /\ response = NoResponse

Requests == {1, 2}

IdleRace ==
    /\ racePc = [p \in Requests |-> "idle"]
    /\ raceData = [p \in Requests |-> [call |-> [op |-> "none"], data |-> getDefaultCvData]]
    /\ raceLog = <<>>

Init ==
    /\ stored \in {null} \cup LegacyDocuments \cup SavedDocuments
    /\ clock = 1
    /\ last = NoCall
    /\ cvFile = NoFile
    /\ IdleMigrator
    /\ IdleMatcher
    /\ IdleService
    /\ IdleRace

AddToSection ==
    /\ clock <= MaxClock
    /\ \E section \in SectionArgs, item \in Entries : addToSection(section, item)
    /\ UNCHANGED <<migVars, presetVars, serviceVars, raceVars>>

UpdateInSection ==
    /\ clock <= MaxClock
    /\ \E section \in SectionArgs, index \in IndexArgs, item \in Entries :
          updateInSection(section, index, item)
    /\ UNCHANGED <<migVars, presetVars, serviceVars, raceVars>>

RemoveFromSection ==
    /\ clock <= MaxClock
    /\ \E section \in SectionArgs, index \in IndexArgs : removeFromSection(section, index)
    /\ UNCHANGED <<migVars, presetVars, serviceVars, raceVars>>

MoveInSection ==
    /\ clock <= MaxClock
    /\ \E section \in SectionArgs, index \in IndexArgs, direction \in Directions :
          moveInSection(section, index, direction)
    /\ UNCHANGED <<migVars, presetVars, serviceVars, raceVars>>

AddSkillCategory ==
    /\ clock <= MaxClock
    /\ \E category \in Categories, items \in ItemLists, skillType \in TypeArgs :
          addSkillCategory(category, items, skillType)
    /\ UNCHANGED <<migVars, presetVars, serviceVars, raceVars>>

EditSkillCategory ==
    /\ clock <= MaxClock
    /\ \E oldCategory \in Categories, newCategory \in Categories, items \in ItemLists,
          skillType \in TypeArgs :
          editSkillCategory(oldCategory, newCategory, items, skillType)
    /\ UNCHANGED <<migVars, presetVars, serviceVars, raceVars>>

RemoveSkillCategory ==
    /\ clock <= MaxClock
    /\ \E category \in Categories : removeSkillCategory(category)
    /\ UNCHANGED <<migVars, presetVars, serviceVars, raceVars>>

AddInterestCategory ==
    /\ clock <= MaxClock
    /\ \E category \in Categories, items \in ItemLists, interestType \in TypeArgs :
          addInterestCategory(category, items, interestType)
    /\ UNCHANGED <<migVars, presetVars, serviceVars, raceVars>>

EditInterestCategory ==
    /\ clock <= MaxClock
    /\ \E oldCategory \in Categories, newCategory \in Categories, items \in ItemLists,
          interestType \in TypeArgs :
          editInterestCategory(oldCategory, newCategory, items, interestType)
    /\ UNCHANGED <<migVars, presetVars, serviceVars, raceVars>>

RemoveInterestCategory ==
    /\ clock <= MaxClock
    /\ \E category \in Categories : removeInterestCategory(category)
    /\ UNCHANGED <<migVars, presetVars, serviceVars, raceVars>>

Save ==
    /\ clock <= MaxClock
    /\ \E body \in Bodies : save(body)
    /\ UNCHANGED <<migVars, presetVars, serviceVars, raceVars>>

Next ==
    \/ AddToSection
    \/ UpdateInSection
    \/ RemoveFromSection
    \/ MoveInSection
    \/ AddSkillCategory
    \/ EditSkillCategory
    \/ RemoveSkillCategory
    \/ AddInterestCategory
    \/ EditInterestCategory
    \/ RemoveInterestCategory
    \/ Save

Spec == Init /\ [][Next]_vars

-----------------------------------------------------------------------------
(* Skill-category calls alone, on a store that starts without a document *)

IdleProfile ==
    /\ stored = null
    /\ clock = 1
    /\ last = NoCall
    /\ cvFile = NoFile

InitSkills ==
    /\ IdleProfile
    /\ IdleMigrator
    /\ IdleMatcher
    /\ IdleService
    /\ IdleRace

SkillsAdd ==
    /\ clock <= MaxSkillCalls
    /\ \E category \in Categories, items \in ItemLists, skillType \in TypeArgs :
          addSkillCategory(category, items, skillType)
    /\ UNCHANGED <<migVars, presetVars, serviceVars, raceVars>>

SkillsEdit ==
    /\ clock <= MaxSkillCalls
    /\ \E oldCategory \in Categories, newCategory \in Categories, items \in ItemLists,
          skillType \in TypeArgs :
          editSkillCategory(oldCategory, newCategory, items, skillType)
    /\ UNCHANGED <<migVars, presetVars, serviceVars, raceVars>>

SkillsRemove ==
    /\ clock <= MaxSkillCalls
    /\ \E category \in Categories : removeSkillCategory(category)
    /\ UNCHANGED <<migVars, presetVars, serviceVars, raceVars>>

NextSkills ==
    \/ SkillsAdd
    \/ SkillsEdit
    \/ SkillsRemove

SpecSkills == InitSkills /\ [][NextSkills]_vars

-----------------------------------------------------------------------------
(* The migrator on legacy input, run once and then on its own output *)

SeqsUpTo(S, n) == UNION {[1 .. k -> S] : k \in 0 .. n}

\* every map from a subset of keys to values
MapsOver(keys, values) == UNION {[d -> values] : d \in SUBSET keys}

LegacyInterests == {"Chess", "Docker"}
LegacyTypeValues == {"work", "personal", "hobby", ""}

LegacyInputs ==
    {[interests |-> Arr(list), interestTypes |-> types] :
        list \in SeqsUpTo(LegacyInterests, MaxLen),
        types \in {Obj(m) : m \in MapsOver(LegacyInterests, LegacyTypeValues)} \cup {Missing}}

\* the interests / interestTypes pair saveCvData stores for data
migrate(data) ==
    [interests |-> migrateInterests(Field(data, "interests"), Field(data, "interestTypes")),
     interestTypes |-> migrateInterestTypes(Field(data, "interests"), Field(data, "interestTypes"))]

InitMigrate ==
    /\ IdleProfile
    /\ IdleMatcher
    /\ IdleService
    /\ IdleRace
    /\ migInput \in LegacyInputs
    /\ migOnce = migInput
    /\ migTwice = migInput
    /\ migStage = 0

MigrateOnce ==
    /\ migStage = 0
    /\ migOnce' = migrate(migInput)
    /\ migStage' = 1
    /\ UNCHANGED <<migInput, migTwice, profileVars, presetVars, serviceVars, raceVars>>

MigrateAgain ==
    /\ migStage = 1
    /\ migTwice' = migrate(migOnce)
    /\ migStage' = 2
    /\ UNCHANGED <<migInput, migOnce, profileVars, presetVars, serviceVars, raceVars>>

NextMigrate ==
    \/ MigrateOnce
    \/ MigrateAgain

SpecMigrate == InitMigrate /\ [][NextMigrate]_vars

-----------------------------------------------------------------------------
(* Preset matcher: lib/controllers/pageBuilder.js *)

\* A type string is its sequence of characters, so that join is a real
\* concatenation.  NoPreset is the null detectActivePreset returns.
NoPreset == "null"

\* list.map((s) => s.type): undefined for an entry without a type
RECURSIVE TypesOf(_)
TypesOf(list) ==
    IF list = <<>> THEN <<>> ELSE <<Field(Head(list), "type")>> \o TypesOf(Tail(list))

\* join renders undefined as the empty string
JoinText(v) == IF v.kind = "string" THEN v.val ELSE <<>>

\* texts.join(",")
RECURSIVE Join(_)
Join(texts) ==
    IF texts = <<>> THEN <<>>
    ELSE IF Len(texts) = 1 THEN JoinText(Head(texts))
    ELSE JoinText(Head(texts)) \o <<",">> \o Join(Tail(texts))

\* (config.sections || []).map((s) => s.type).join(",")
JoinedTypes(list) == Join(TypesOf(OrElse(list, Arr(<<>>)).val))

\* variant: the scan keeps the last preset that matches
RECURSIVE detectLastPreset(_, _)
detectLastPreset(cfg, catalog) ==
    IF catalog = <<>> THEN NoPreset
    ELSE LET preset == Head(catalog)
             later == detectLastPreset(cfg, Tail(catalog))
         IN  IF later # NoPreset THEN later
             ELSE IF cfg.layout # preset.layout THEN NoPreset
             ELSE IF JoinedTypes(Field(cfg, "sections")) # JoinedTypes(Arr(preset.sections))
                THEN NoPreset
             ELSE IF JoinedTypes(Field(cfg, "sidebar")) # JoinedTypes(Arr(preset.sidebar))
                THEN NoPreset
             ELSE preset.id

RECURSIVE detectActivePreset(_, _)
detectActivePreset(cfg, catalog) ==
    IF catalog = <<>> THEN NoPreset
    ELSE LET preset == Head(catalog)
         IN  IF cfg.layout # preset.layout
                THEN detectActivePreset(cfg, Tail(catalog))
             ELSE IF JoinedTypes(Field(cfg, "sections")) # JoinedTypes(Arr(preset.sections))
                THEN detectActivePreset(cfg, Tail(catalog))
             ELSE IF JoinedTypes(Field(cfg, "sidebar")) # JoinedTypes(Arr(preset.sidebar))
                THEN detectActivePreset(cfg, Tail(catalog))
             ELSE preset.id

-----------------------------------------------------------------------------
(* The matcher on a catalog and a page config *)

TypeA == Text(<<"a">>)
TypeB == Text(<<"b">>)
TypeAB == Text(<<"a", ",", "b">>)              \* the one type "a,b"

SectionEntries ==
    {[type |-> TypeA, config |-> "c"], [type |-> TypeB, config |-> "c"],
     [type |-> TypeAB, config |-> "c"], [config |-> "c"]}

Preset(id, layout, sections, sidebar) ==
    [id |-> id, layout |-> layout, sections |-> sections, sidebar |-> sidebar]

PresetPool ==
    {Preset("p1", "single-column", <<[type |-> TypeA], [type |-> TypeB]>>, <<>>),
     Preset("p2", "single-column", <<[type |-> TypeA], [type |-> TypeB]>>, <<>>),
     Preset("p3", "single-column", <<[type |-> TypeAB]>>, <<>>),
     Preset("p4", "two-column", <<[type |-> TypeA]>>, <<[type |-> TypeB]>>)}

Catalogs == SeqsUpTo(PresetPool, MaxPresets)

PageConfigs ==
    {[layout |-> layout, sections |-> sections, sidebar |-> sidebar] :
        layout \in {"single-column", "two-column"},
        sections \in {Arr(list) : list \in SeqsUpTo(SectionEntries, MaxSections)} \cup {Missing},
        sidebar \in {Missing, Arr(<<>>), Arr(<<[type |-> TypeB, config |-> "c"]>>)}}

InitPreset ==
    /\ IdleProfile
    /\ IdleMigrator
    /\ IdleService
    /\ IdleRace
    /\ presets \in Catalogs
    /\ config \in PageConfigs
    /\ activePresetId = "pending"

DetectActivePreset ==
    /\ activePresetId = "pending"
    /\ activePresetId' = detectActivePreset(config, presets)
    /\ UNCHANGED <<presets, config, profileVars, migVars, serviceVars, raceVars>>

NextPreset == DetectActivePreset

SpecPreset == InitPreset /\ [][NextPreset]_vars

-----------------------------------------------------------------------------
(* Page-config store: lib/storage/cvPageConfig.js *)

getConfig == pageStored

DefaultHero == Obj([enabled |-> TRUE, showSocial |-> TRUE])

\* config.layout: undefined when the property does not exist
LayoutOf(cfg) == IF "layout" \in DOMAIN cfg THEN cfg.layout ELSE undefined

\* the document saveConfig builds from config at the time now
pageDocument(cfg, now) ==
    [_id |-> "cv-page",
     layout |-> OrElseStr(LayoutOf(cfg), "single-column"),
     hero |-> OrElse(Field(cfg, "hero"), DefaultHero),
     sections |-> OrElse(Field(cfg, "sections"), Arr(<<>>)),
     sidebar |-> OrElse(Field(cfg, "sidebar"), Arr(<<>>)),
     footer |-> OrElse(Field(cfg, "footer"), Arr(<<>>)),
     identity |-> OrElse(Field(cfg, "identity"), NullField),
     updatedAt |-> now]

\* writeConfigFile(application, config): the content of cv-page.json after the write
writeConfigFile(file, document) ==
    [layout |-> document.layout,
     hero |-> document.hero,
     sections |-> document.sections,
     sidebar |-> document.sidebar,
     footer |-> document.footer,
     identity |-> document.identity,
     updatedAt |-> document.updatedAt]

\* saveConfig(application, config) called by a handler that answers done
\* when it returns and failed when it throws; a handler reads the current
\* config first, and that read throws as the write does
saveConfig(call, cfg, done, failed) ==
    /\ clock' = Now
    /\ IF fault = "backend"
       THEN /\ pageStored' = pageStored
            /\ pageFile' = pageFile
            /\ response' = failed
            /\ last' = [call |-> call, before |-> pageStored, data |-> cfg, saved |-> FALSE,
                        returned |-> Rejected("backend"), outcome |-> "error",
                        fileBefore |-> pageFile]
       ELSE /\ pageStored' = replaceOne(pageStored, pageDocument(cfg, Now))
            /\ IF fault = "file"
               THEN /\ pageFile' = pageFile
                    /\ response' = failed
                    /\ last' = [call |-> call, before |-> pageStored, data |-> cfg,
                                saved |-> TRUE, returned |-> Rejected("file"),
                                outcome |-> "error", fileBefore |-> pageFile]
               ELSE /\ pageFile' = writeConfigFile(pageFile, pageDocument(cfg, Now))
                    /\ response' = done
                    /\ last' = [call |-> call, before |-> pageStored, data |-> cfg,
                                saved |-> TRUE, returned |-> pageDocument(cfg, Now),
                                outcome |-> "ok", fileBefore |-> pageFile]

\* a handler that answers without a call on the store
answerOnly(call, answer, outcome) ==
    /\ clock' = Now
    /\ pageStored' = pageStored
    /\ pageFile' = pageFile
    /\ response' = answer
    /\ last' = [call |-> call, before |-> pageStored, data |-> [layout |-> undefined],
                saved |-> FALSE, returned |-> answer, outcome |-> outcome,
                fileBefore |-> pageFile]

-----------------------------------------------------------------------------
(* Page builder: lib/controllers/pageBuilder.js *)

Redirect(to) == [kind |-> "redirect", to |-> to]
ErrorPage(message) == [kind |-> "error", status |-> 500, message |-> message]

validLayouts == {"single-column", "two-column", "full-width-hero"}

\* typeof v === "string" ? JSON.parse(v) : v, and whether JSON.parse throws
ParseIfString(v) == IF v.kind = "string" THEN v.val ELSE v
ParseThrows(v) == v.kind = "string" /\ v.val.kind = "undefined"

\* currentConfig?.name || fallback
CurrentOr(current, name, fallback) ==
    IF current = null THEN fallback ELSE OrElse(Field(current, name), fallback)

\* variant: the layout of the body is taken as it is
pageSaveConfigUnchecked(body, current) ==
    [layout |-> LayoutOf(body),
     hero |-> DefaultHero,
     sections |-> Arr(<<>>),
     sidebar |-> Arr(<<>>),
     footer |-> Arr(<<>>),
     identity |-> CurrentOr(current, "identity", NullField)]

\* the config POST /cv/page/save builds
pageSaveConfig(body, current) ==
    LET parsedHero == ParseIfString(Field(body, "hero"))
        parsedSections == ParseIfString(Field(body, "sections"))
        parsedSidebar == ParseIfString(Field(body, "sidebar"))
        parsedFooter == ParseIfString(Field(body, "footer"))
    IN  [layout |-> IF LayoutOf(body) \in validLayouts THEN LayoutOf(body)
                    ELSE "single-column",
         hero |-> IF isObject(parsedHero) THEN parsedHero ELSE DefaultHero,
         sections |-> IF isArray(parsedSections) THEN parsedSections ELSE Arr(<<>>),
         sidebar |-> IF isArray(parsedSidebar) THEN parsedSidebar ELSE Arr(<<>>),
         footer |-> IF isArray(parsedFooter) THEN parsedFooter ELSE Arr(<<>>),
         identity |-> CurrentOr(current, "identity", NullField)]

\* POST /cv/page/save
pageSave(body) ==
    LET call == [op |-> "pageSave", body |-> body]
        failed == ErrorPage("Failed to save configuration")
    IN  IF \E name \in {"hero", "sections", "sidebar", "footer"} : ParseThrows(Field(body, name))
        THEN answerOnly(call, failed, "error")
        ELSE saveConfig(call, pageSaveConfig(body, getConfig), Redirect("page?saved=1"), failed)

SectionOfType(type) == [type |-> Text(<<type>>), config |-> "{}"]

getCvPresets ==
    <<[id |-> "professional-cv", layout |-> "single-column", hero |-> DefaultHero,
       sections |-> <<SectionOfType("cv-experience-work"), SectionOfType("cv-skills-work"),
                      SectionOfType("cv-projects-work"), SectionOfType("cv-education-work"),
                      SectionOfType("cv-languages"), SectionOfType("cv-interests-work")>>,
       sidebar |-> <<>>],
      [id |-> "full-portfolio", layout |-> "two-column", hero |-> DefaultHero,
       sections |-> <<[type |-> Text(<<"cv-experience">>), config |-> "{maxItems: 5}"],
                      SectionOfType("cv-skills"), SectionOfType("cv-projects"),
                      SectionOfType("cv-education"), SectionOfType("cv-languages"),
                      SectionOfType("cv-interests")>>,
       sidebar |-> <<SectionOfType("author-card"), SectionOfType("social-activity"),
                     SectionOfType("github-repos")>>],
      [id |-> "minimal", layout |-> "single-column", hero |-> DefaultHero,
       sections |-> <<[type |-> Text(<<"cv-experience-work">>), config |-> "{maxItems: 5}"],
                      SectionOfType("cv-skills-work"), SectionOfType("cv-education-work")>>,
       sidebar |-> <<>>]>>

\* presets.find((p) => p.id === presetId): the position, 0 when there is none
FindPreset(catalog, presetId) ==
    IF \E i \in DOMAIN catalog : catalog[i].id = presetId
    THEN CHOOSE i \in DOMAIN catalog :
            /\ catalog[i].id = presetId
            /\ \A j \in DOMAIN catalog : catalog[j].id = presetId => i <= j
    ELSE 0

\* variant: the sidebar of the current config is kept, as its footer is
presetConfigKeepingSidebar(preset, current) ==
    [layout |-> preset.layout,
     hero |-> preset.hero,
     sections |-> Arr(preset.sections),
     sidebar |-> CurrentOr(current, "sidebar", Arr(<<>>)),
     footer |-> CurrentOr(current, "footer", Arr(<<>>)),
     identity |-> CurrentOr(current, "identity", NullField)]

presetConfig(preset, current) ==
    [layout |-> preset.layout,
     hero |-> preset.hero,
     sections |-> Arr(preset.sections),
     sidebar |-> Arr(preset.sidebar),
     footer |-> CurrentOr(current, "footer", Arr(<<>>)),
     identity |-> CurrentOr(current, "identity", NullField)]

\* variant: an unknown id falls back on the first preset
applyFirstPreset(presetId) ==
    LET call == [op |-> "applyPreset", presetId |-> presetId]
        found == FindPreset(getCvPresets, presetId)
    IN  saveConfig(call, presetConfig(getCvPresets[IF found = 0 THEN 1 ELSE found], getConfig),
                   Redirect("page?saved=1"), ErrorPage("Failed to apply preset"))

\* POST /cv/page/preset.  response.status(400).redirect(url): the answer is
\* the redirect.
applyPreset(presetId) ==
    LET call == [op |-> "applyPreset", presetId |-> presetId]
        found == FindPreset(getCvPresets, presetId)
    IN  IF found = 0
        THEN answerOnly(call, Redirect("page?error=unknown-preset"), "rejected")
        ELSE saveConfig(call, presetConfig(getCvPresets[found], getConfig),
                        Redirect("page?saved=1"), ErrorPage("Failed to apply preset"))

\* entries of body.social with a name or a url, with their defaults
RECURSIVE SocialFrom(_)
SocialFrom(entries) ==
    IF entries = <<>> THEN <<>>
    ELSE LET entry == Head(entries)
         IN  (IF ~TruthyStr(entry.name) /\ ~TruthyStr(entry.url) THEN <<>>
              ELSE <<[name |-> OrElseStr(entry.name, ""), url |-> OrElseStr(entry.url, ""),
                      rel |-> OrElseStr(entry.rel, "me"), icon |-> OrElseStr(entry.icon, "")]>>)
             \o SocialFrom(Tail(entries))

parseSocialLinks(body) ==
    LET social == Field(body, "social")
    IN  IF ~Truthy(social) THEN <<>>
        ELSE IF isArray(social) THEN SocialFrom(social.val)
        ELSE SocialFrom(ObjectValues(social.val))

\* the identity object POST /cv/page/save-identity builds; the text fields are
\* alike, name and url stand for them
identityOf(body) ==
    Obj([name |-> OrElseStr(body["identity-name"], ""),
         url |-> OrElseStr(body["identity-url"], ""),
         social |-> parseSocialLinks(body)])

\* variant: the identity is saved with the defaults of the other fields
identityConfigAfresh(body, current) ==
    [layout |-> "single-column",
     hero |-> DefaultHero,
     sections |-> Arr(<<>>),
     sidebar |-> Arr(<<>>),
     footer |-> Arr(<<>>),
     identity |-> identityOf(body)]

identityConfig(body, current) ==
    [layout |-> IF current = null THEN "single-column"
                ELSE OrElseStr(current.layout, "single-column"),
     hero |-> CurrentOr(current, "hero", DefaultHero),
     sections |-> CurrentOr(current, "sections", Arr(<<>>)),
     sidebar |-> CurrentOr(current, "sidebar", Arr(<<>>)),
     footer |-> CurrentOr(current, "footer", Arr(<<>>)),
     identity |-> identityOf(body)]

\* POST /cv/page/save-identity
saveIdentity(body) ==
    saveConfig([op |-> "saveIdentity", body |-> body], identityConfig(body, getConfig),
               Redirect("page/identity?saved=1"), ErrorPage("Failed to save CV identity"))

\* saveConfig called by other code: its caller gets the document or the exception
saveConfigDirectly(cfg) ==
    saveConfig([op |-> "saveConfig", config |-> cfg], cfg, response, response)

\* getDefaultConfig() of lib/storage/cvPageConfig.js
getDefaultConfig ==
    [layout |-> "single-column",
     hero |-> DefaultHero,
     sections |-> Arr(<<SectionOfType("cv-experience-work"), SectionOfType("cv-skills-work"),
                        SectionOfType("cv-projects-work"), SectionOfType("cv-education-work"),
                        SectionOfType("cv-languages"), SectionOfType("cv-interests-work")>>),
     sidebar |-> Arr(<<>>),
     footer |-> Arr(<<>>)]

\* the page response.render("cv-page-builder", ...) is given
BuilderPage(cfg) ==
    [kind |-> "page", config |-> cfg,
     activePresetId |-> detectActivePreset(cfg, getCvPresets)]

\* GET /cv/page.  The call record keeps the call before it.
pageGet ==
    /\ clock' = Now
    /\ pageStored' = pageStored
    /\ pageFile' = pageFile
    /\ response' = IF fault = "backend"
                   THEN ErrorPage("Failed to load CV page configuration")
                   ELSE BuilderPage(IF getConfig = null THEN getDefaultConfig ELSE getConfig)
    /\ last' = [call |-> [op |-> "pageGet"], before |-> pageStored,
                data |-> [layout |-> undefined], saved |-> FALSE, returned |-> response',
                outcome |-> IF fault = "backend" THEN "error" ELSE "ok",
                fileBefore |-> pageFile, previous |-> last.call,
                previousSaved |-> last.saved]

-----------------------------------------------------------------------------
(* Public read boundary: lib/controllers/api.js *)

Json(body) == [kind |-> "json", status |-> 200, body |-> body]

readOnly(call, answer) ==
    /\ clock' = Now
    /\ response' = answer
    /\ last' = [call |-> call, before |-> [cv |-> stored, page |-> pageStored],
                data |-> getDefaultCvData, saved |-> FALSE, returned |-> answer,
                outcome |-> IF fault = "backend" THEN "error" ELSE "ok",
                fileBefore |-> [cv |-> cvFile, page |-> pageFile]]

\* variant: the stored document is answered with all its fields
getDataWithId ==
    readOnly([op |-> "getData"],
             IF fault = "backend" THEN Json(getDefaultCvData) ELSE Json(LoadOrDefault))

\* GET /cv/data.json
getData ==
    readOnly([op |-> "getData"],
             IF fault = "backend" THEN Json(getDefaultCvData)
             ELSE Json(fileData(LoadOrDefault)))

\* GET /cv/page.json
getPageConfig ==
    readOnly([op |-> "getPageConfig"],
             IF fault = "backend" THEN Json(NullField)
             ELSE IF getConfig = null THEN Json(NullField)
             ELSE Json(fileData(getConfig)))

-----------------------------------------------------------------------------
(* The service: profile calls, page-config calls and public reads, in an
   environment whose backend and file system may fail *)

HeroOff == Obj([enabled |-> FALSE, showSocial |-> TRUE])
OneSection == Arr(<<[type |-> TypeA, config |-> "c"]>>)

\* request bodies of POST /cv/page/save
PageBodies ==
    {[layout |-> layout, hero |-> hero, sections |-> sections, footer |-> footer] :
        layout \in {"two-column", "grid", undefined},
        hero \in {Missing, HeroOff},
        sections \in {Missing, OneSection, Text(OneSection), Text(Missing)},
        footer \in {Missing, Text(Arr(<<[type |-> TypeB, config |-> "c"]>>))}}

PresetIds == {"professional-cv", "full-portfolio", "minimal", "bogus", undefined}

\* request bodies of POST /cv/page/save-identity
IdentityBody(name, url, social) ==
    ("identity-name" :> name) @@ ("identity-url" :> url) @@ ("social" :> social)

IdentityBodies ==
    {IdentityBody(name, undefined, social) :
        name \in {"Ada", undefined},
        social \in {Missing,
                    Arr(<<[name |-> "gh", url |-> "u", rel |-> undefined, icon |-> undefined],
                          [name |-> "", url |-> undefined, rel |-> "me", icon |-> "i"]>>)}}

\* configs handed to saveConfig by other code
DirectConfigs ==
    {[layout |-> "grid"], [layout |-> ""], [sections |-> OneSection],
     [layout |-> "full-width-hero", identity |-> NullField, footer |-> Arr(<<>>)]}

\* page configs written by an earlier session
StoredPages ==
    {pageDocument([layout |-> "two-column", sections |-> OneSection,
                   footer |-> Arr(<<[type |-> TypeB, config |-> "c"]>>),
                   identity |-> identityOf(IdentityBody("Ada", "u", Missing))],
                  1)}

InitService ==
    /\ stored \in {null, LegacyDocument(EmptyMap, <<"Docker", "Chess">>, EmptyMap)}
                   \cup SavedDocuments
    /\ clock = 1
    /\ last = NoCall
    /\ cvFile = IF stored = null THEN NoFile ELSE writeCvFile(NoFile, stored)
    /\ pageStored \in {null} \cup StoredPages
    /\ pageFile = IF pageStored = null THEN NoFile ELSE writeConfigFile(NoFile, pageStored)
    /\ fault = "none"
    /\ response = NoResponse
    /\ IdleMigrator
    /\ IdleMatcher
    /\ IdleRace

\* the backend or the file system fails or recovers
EnvironmentChanges ==
    /\ \E f \in Faults \ {fault} : fault' = f
    /\ UNCHANGED <<profileVars, pageStored, pageFile, response, migVars, presetVars, raceVars>>

PageSave ==
    /\ clock <= MaxClock
    /\ \E body \in PageBodies : pageSave(body)
    /\ UNCHANGED <<stored, cvFile, fault, migVars, presetVars, raceVars>>

ApplyPreset ==
    /\ clock <= MaxClock
    /\ \E presetId \in PresetIds : applyPreset(presetId)
    /\ UNCHANGED <<stored, cvFile, fault, migVars, presetVars, raceVars>>

SaveIdentity ==
    /\ clock <= MaxClock
    /\ \E body \in IdentityBodies : saveIdentity(body)
    /\ UNCHANGED <<stored, cvFile, fault, migVars, presetVars, raceVars>>

SaveConfig ==
    /\ clock <= MaxClock
    /\ \E cfg \in DirectConfigs : saveConfigDirectly(cfg)
    /\ UNCHANGED <<stored, cvFile, fault, migVars, presetVars, raceVars>>

GetData ==
    /\ clock <= MaxClock
    /\ getData
    /\ UNCHANGED <<stored, cvFile, pageStored, pageFile, fault, migVars, presetVars, raceVars>>

GetPageConfig ==
    /\ clock <= MaxClock
    /\ getPageConfig
    /\ UNCHANGED <<stored, cvFile, pageStored, pageFile, fault, migVars, presetVars, raceVars>>

NextService ==
    \/ AddToSection
    \/ MoveInSection
    \/ AddInterestCategory
    \/ Save
    \/ PageSave
    \/ ApplyPreset
    \/ SaveIdentity
    \/ SaveConfig
    \/ GetData
    \/ GetPageConfig
    \/ EnvironmentChanges

SpecService == InitService /\ [][NextService]_vars

-----------------------------------------------------------------------------
(* The page builder: its handlers one after the other on the page config *)

InitPage ==
    /\ IdleProfile
    /\ IdleMigrator
    /\ IdleMatcher
    /\ IdleRace
    /\ pageStored \in {null} \cup StoredPages
    /\ pageFile = IF pageStored = null THEN NoFile ELSE writeConfigFile(NoFile, pageStored)
    /\ fault = "none"
    /\ response = NoResponse

BuilderSave ==
    /\ clock <= MaxPageCalls
    /\ \E body \in PageBodies : pageSave(body)
    /\ UNCHANGED <<stored, cvFile, fault, migVars, presetVars, raceVars>>

BuilderPreset ==
    /\ clock <= MaxPageCalls
    /\ \E presetId \in PresetIds : applyPreset(presetId)
    /\ UNCHANGED <<stored, cvFile, fault, migVars, presetVars, raceVars>>

BuilderIdentity ==
    /\ clock <= MaxPageCalls
    /\ \E body \in IdentityBodies : saveIdentity(body)
    /\ UNCHANGED <<stored, cvFile, fault, migVars, presetVars, raceVars>>

BuilderGet ==
    /\ clock <= MaxPageCalls
    /\ pageGet
    /\ UNCHANGED <<stored, cvFile, fault, migVars, presetVars, raceVars>>

NextPage ==
    \/ BuilderSave
    \/ BuilderPreset
    \/ BuilderIdentity
    \/ BuilderGet

SpecPage == InitPage /\ [][NextPage]_vars

-----------------------------------------------------------------------------
(* Two requests in flight.  A repository call awaits getCvData, changes the
   loaded document in memory and awaits replaceOne in saveCvData; the
   handler of another request runs between the two awaits. *)

\* the calls of the two requests
RaceCalls ==
    {[op |-> "addToSection", section |-> section, item |-> item] :
        section \in {"experience", "projects"}, item \in Entries}
    \cup {[op |-> "addSkillCategory", category |-> "A", items |-> Arr(<<"Docker">>),
           type |-> "work"]}

\* the document in memory after the call has changed what it loaded
Mutated(call, data) ==
    IF call.op = "addToSection" THEN pushed(data, call.section, call.item)
    ELSE addCategory(data, "skills", "skillTypes", call.category, call.items, call.type)

InitRace ==
    /\ stored \in {null} \cup SavedDocuments
    /\ clock = 1
    /\ last = NoCall
    /\ cvFile = IF stored = null THEN NoFile ELSE writeCvFile(NoFile, stored)
    /\ IdleMigrator
    /\ IdleMatcher
    /\ IdleService
    /\ IdleRace

\* request p: const data = (await getCvData(application)) || getDefaultCvData()
\* and the change of data, up to the call of saveCvData
RaceLoad(p) ==
    /\ racePc[p] = "idle"
    /\ \E call \in RaceCalls :
          /\ raceData' = [raceData EXCEPT
                             ![p] = [call |-> call, data |-> Mutated(call, LoadOrDefault)]]
          /\ raceLog' = Append(raceLog, [request |-> p, step |-> "load",
                                         loaded |-> LoadOrDefault])
    /\ racePc' = [racePc EXCEPT ![p] = "loaded"]
    /\ UNCHANGED <<profileVars, migVars, presetVars, serviceVars>>

\* request p: return saveCvData(application, data)
RaceSave(p) ==
    /\ racePc[p] = "loaded"
    /\ saveCvData(raceData[p].call, raceData[p].data)
    /\ racePc' = [racePc EXCEPT ![p] = "done"]
    /\ raceLog' = Append(raceLog, [request |-> p, step |-> "save",
                                   document |-> last'.returned,
                                   outcome |-> last'.outcome])
    /\ UNCHANGED <<raceData, migVars, presetVars, serviceVars>>

NextRace ==
    \/ \E p \in Requests : RaceLoad(p)
    \/ \E p \in Requests : RaceSave(p)

SpecRace == InitRace /\ [][NextRace]_vars

-----------------------------------------------------------------------------
(* The deferred startup task of init beside the requests.  The task awaits
   getCvData and writes cv.json when the answer has come; the handlers of the
   requests run between its two steps. *)

StartupTask == 0

InitStartup ==
    /\ stored \in {null} \cup SavedDocuments
    /\ clock = 1
    /\ last = NoCall
    /\ cvFile \in {NoFile} \cup {writeCvFile(NoFile, document) : document \in {stored} \ {null}}
    /\ IdleMigrator
    /\ IdleMatcher
    /\ IdleService
    /\ racePc = [p \in Requests \cup {StartupTask} |-> "idle"]
    /\ raceData = [p \in Requests \cup {StartupTask} |->
                      [call |-> [op |-> "none"], data |-> getDefaultCvData]]
    /\ raceLog = <<>>

\* const data = (await getCvData(app)) || getDefaultCvData()
StartupLoad ==
    /\ racePc[StartupTask] = "idle"
    /\ raceData' = [raceData EXCEPT
                       ![StartupTask] = [call |-> [op |-> "startup"], data |-> LoadOrDefault]]
    /\ racePc' = [racePc EXCEPT ![StartupTask] = "loaded"]
    /\ UNCHANGED <<profileVars, raceLog, migVars, presetVars, serviceVars>>

\* writeCvFile(app, data)
StartupWrite ==
    /\ racePc[StartupTask] = "loaded"
    /\ cvFile' = writeCvFile(cvFile, raceData[StartupTask].data)
    /\ racePc' = [racePc EXCEPT ![StartupTask] = "done"]
    /\ UNCHANGED <<stored, clock, last, raceData, raceLog, migVars, presetVars, serviceVars>>

NextStartup ==
    \/ StartupLoad
    \/ StartupWrite
    \/ \E p \in Requests : RaceLoad(p)
    \/ \E p \in Requests : RaceSave(p)

SpecStartup == InitStartup /\ [][NextStartup]_vars

-----------------------------------------------------------------------------
(* Properties of the profile store *)

ContentFields ==
    {"experience", "projects", "skills", "skillTypes", "education", "languages",
     "interests", "interestTypes"}

\* the sections the repository documents as array sections
OrderedSections == {"experience", "projects", "education", "languages"}

\* Object.keys(v)
KeysOf(v) ==
    IF v.kind = "object" THEN DOMAIN v.val
    ELSE IF v.kind = "array" THEN {ToString(k - 1) : k \in DOMAIN v.val}
    ELSE {}

Same(a, b) == a.kind = b.kind /\ a.val = b.val

\* the document the last call worked on
Loaded == IF last.before = null THEN getDefaultCvData ELSE last.before

Called(op) == last.call.op = op

\* C1: starting from a store without a profile, after any sequence of
\* addSkillCategory / editSkillCategory / removeSkillCategory calls the stored
\* skills map and the stored skillTypes map have the same key set.
C1_SkillKeysAgree ==
    stored # null => KeysOf(stored.skills) = KeysOf(stored.skillTypes)

\* a rename of an existing skill category has been stored
C1_Witness ==
    /\ Called("editSkillCategory")
    /\ last.before # null
    /\ last.call.oldCategory # last.call.newCategory
    /\ last.call.oldCategory \in KeysOf(last.before.skills)
    /\ last.call.oldCategory \in KeysOf(last.before.skillTypes)
    /\ KeysOf(stored.skills) = {last.call.newCategory}
    /\ KeysOf(stored.skillTypes) = {last.call.newCategory}

\* C2: after a mutation of any kind (ordered-section call, category call, POST
\* /save) of a profile whose skills and skillTypes key sets agree, the
\* persisted skills map and the persisted skillTypes map have the same key set.
C2_KeysAgreeAfterAnyMutation ==
    (/\ last.saved
     /\ KeysOf(Loaded.skills) = KeysOf(Loaded.skillTypes)
     /\ stored.skills.kind = "object"
     /\ stored.skillTypes.kind = "object")
    => KeysOf(stored.skills) = KeysOf(stored.skillTypes)

\* the last call moved the first item of an ordered section up or its last
\* item down
BoundaryMove ==
    /\ Called("moveInSection")
    /\ last.call.section \in OrderedSections
    /\ ~last.call.index.nan
    /\ LET n == Len(Loaded[last.call.section].val)
       IN  /\ n >= 1
           /\ \/ last.call.index.n = 0 /\ last.call.direction = "up"
              \/ last.call.index.n = n - 1 /\ last.call.direction = "down"

\* C3 as stated: a move of the first item up or of the last item down leaves
\* the section as it was and still persists the document, so the stored
\* lastUpdated is the stamp of the call.
C3_BoundaryMovePersists ==
    BoundaryMove =>
        /\ stored # null
        /\ Same(stored[last.call.section], Loaded[last.call.section])
        /\ last.saved
        /\ stored.lastUpdated = clock

\* C3: a move of the first item up or of the last item down leaves the section
\* as it was in the returned and in the stored document; the call returns the
\* loaded document without persisting, so the stored document, its
\* lastUpdated included, is the one stored before the call.
C3_BoundaryMoveLeavesStore ==
    BoundaryMove =>
        /\ ~last.saved
        /\ stored = last.before
        /\ last.returned = Loaded
        /\ stored.lastUpdated < clock

\* the last item of a section of three has been moved down
C3_Witness ==
    /\ BoundaryMove
    /\ Len(Loaded[last.call.section].val) = 3
    /\ last.call.index.n = 2
    /\ last.call.direction = "down"

\* the last call moved an item of an ordered section onto a neighbour that exists
InteriorMove ==
    /\ Called("moveInSection")
    /\ last.call.section \in OrderedSections
    /\ ~last.call.index.nan
    /\ LET n == Len(Loaded[last.call.section].val)
           i == last.call.index.n
       IN  \/ last.call.direction = "up" /\ 0 < i /\ i < n
           \/ last.call.direction = "down" /\ 0 <= i /\ i < n - 1

\* after is before with the elements at the 0-based indexes i and j exchanged
Exchanged(before, after, i, j) ==
    /\ Len(after) = Len(before)
    /\ after[i + 1] = before[j + 1]
    /\ after[j + 1] = before[i + 1]
    /\ \A k \in (1 .. Len(before)) \ {i + 1, j + 1} : after[k] = before[k]

MovedSectionExchanged ==
    Exchanged(Loaded[last.call.section].val, stored[last.call.section].val,
              last.call.index.n,
              IF last.call.direction = "up" THEN last.call.index.n - 1
              ELSE last.call.index.n + 1)

\* C4 as stated: an interior move persists the section with exactly the two
\* neighbours exchanged and every other section unchanged.
C4_SwapAndNothingElse ==
    InteriorMove =>
        /\ last.saved
        /\ MovedSectionExchanged
        /\ \A f \in ContentFields \ {last.call.section} : Same(stored[f], Loaded[f])

\* C4: an interior move persists the section with exactly the two neighbours
\* exchanged, its other elements and its length unchanged; every other section
\* is unchanged, except that interests held as a legacy flat list are
\* persisted, with their interestTypes, in migrated category form.
C4_SwapAndMigration ==
    InteriorMove =>
        /\ last.saved
        /\ MovedSectionExchanged
        /\ \A f \in ContentFields \ {last.call.section, "interests", "interestTypes"} :
              Same(stored[f], Loaded[f])
        /\ IF isArray(Loaded.interests)
           THEN /\ stored.interests = migrateInterests(Loaded.interests, Loaded.interestTypes)
                /\ stored.interestTypes =
                      migrateInterestTypes(Loaded.interests, Loaded.interestTypes)
           ELSE /\ Same(stored.interests, Loaded.interests)
                /\ Same(stored.interestTypes, Loaded.interestTypes)

\* the middle item of three different items has been moved up
C4_Witness ==
    /\ InteriorMove
    /\ last.call.direction = "up"
    /\ last.call.index.n = 1
    /\ Loaded[last.call.section].val = <<"e1", "e2", "e3">>
    /\ stored[last.call.section].val = <<"e2", "e1", "e3">>

\* the last call renamed a category that the loaded document holds in a pair
\* of maps, with a classifier
Renamed(op, itemsField, typesField) ==
    /\ Called(op)
    /\ last.call.oldCategory # last.call.newCategory
    /\ last.call.newCategory # "__proto__"
    /\ last.call.type \in Classifiers
    /\ last.before # null
    /\ last.before[itemsField].kind = "object"
    /\ last.before[typesField].kind = "object"
    /\ last.call.oldCategory \in KeysOf(last.before[itemsField])

RenameStored(itemsField, typesField) ==
    /\ last.call.oldCategory \notin KeysOf(stored[itemsField])
    /\ last.call.oldCategory \notin KeysOf(stored[typesField])
    /\ last.call.newCategory \in KeysOf(stored[itemsField])
    /\ last.call.newCategory \in KeysOf(stored[typesField])
    /\ stored[itemsField].val[last.call.newCategory] = last.call.items
    /\ stored[typesField].val[last.call.newCategory] = last.call.type

\* C5: a rename of category A to B (A # B) with items and classifier t, on a
\* document that holds A, persists a document whose item map and type map have
\* no key A, whose item map has B -> items and whose type map has B -> t; for
\* the skills pair and for the interests pair in map shape.
C5_RenameReplacesCategory ==
    /\ Renamed("editSkillCategory", "skills", "skillTypes")
          => RenameStored("skills", "skillTypes")
    /\ Renamed("editInterestCategory", "interests", "interestTypes")
          => RenameStored("interests", "interestTypes")

\* the last call saved a document that a repository call built from the
\* loaded or default document
SavedMutation == last.saved /\ ~Called("save")

OutsideMove ==
    /\ Called("moveInSection")
    /\ isArray(Field(Loaded, last.call.section))
    /\ ~last.call.index.nan
    /\ \/ last.call.index.n < 0
       \/ last.call.index.n >= Len(Loaded[last.call.section].val)

\* C10: a move from an index outside [0, length) of a list section leaves the
\* length and the elements of the section unchanged in the returned and in the
\* stored document.
C10_OutsideMoveIsNoOp ==
    OutsideMove =>
        /\ Same(last.returned[last.call.section], Loaded[last.call.section])
        /\ stored = null \/ Same(stored[last.call.section], Loaded[last.call.section])

SectionCalls == {"addToSection", "updateInSection", "removeFromSection", "moveInSection"}
SkillCategoryCalls == {"addSkillCategory", "editSkillCategory", "removeSkillCategory"}
InterestCategoryCalls ==
    {"addInterestCategory", "editInterestCategory", "removeInterestCategory"}

StoredOrDefault == IF stored = null THEN getDefaultCvData ELSE stored

\* the last call was a section call on a name that is no field of the loaded
\* document or names a field that is no list; the document has its interests
\* in map shape
NonListCall ==
    /\ last.call.op \in SectionCalls
    /\ ~isArray(Field(Loaded, last.call.section))
    /\ ~isArray(Loaded.interests)

\* C11: a section call (add, update, remove, move) on an unknown section name
\* or on a field that is no list raises no error and leaves the content of
\* every field of the stored document unchanged.
C11_NonListSectionIsNoOp ==
    NonListCall =>
        /\ last.outcome = "ok"
        /\ \A f \in ContentFields : Same(StoredOrDefault[f], Loaded[f])

\* the last call was the first write on a document with a non-empty flat list
\* of interests
LegacyFirstWrite ==
    /\ last.saved
    /\ last.before # null
    /\ isArray(last.before.interests)
    /\ Len(last.before.interests.val) > 0
    /\ \/ last.call.op \in SectionCalls /\ last.call.section \in OrderedSections
       \/ last.call.op \in SkillCategoryCalls
       \/ last.call.op \in InterestCategoryCalls

\* item is an item of some category of the interests map
HeldIn(interests, item) ==
    /\ interests.kind = "object"
    /\ \E c \in DOMAIN interests.val :
          \E k \in DOMAIN interests.val[c] : interests.val[c][k] = item

\* C12: the first write on a document with a non-empty flat list of
\* interests, by a section call, a skill-category call or an interest-category
\* call, persists an interests map that holds every item of the list.
C12_FirstWriteKeepsLegacyItems ==
    LegacyFirstWrite =>
        \A i \in DOMAIN last.before.interests.val :
            HeldIn(stored.interests, last.before.interests.val[i])

\* C13: whatever the stored document and the input, a document persisted by a
\* call has its interests in map shape, never as a flat list; so has the
\* document the call returns.
C13_PersistedInterestsAreMap ==
    /\ (stored # null /\ stored.lastUpdated > 1) => stored.interests.kind = "object"
    /\ (last.saved /\ last.outcome = "ok") => last.returned.interests.kind = "object"

\* a flat list pushed onto by addToSection has been persisted as a map
C13_Witness ==
    /\ Called("addToSection")
    /\ last.call.section = "interests"
    /\ last.before # null
    /\ isArray(last.before.interests)
    /\ Len(last.data.interests.val) = 3
    /\ stored.lastUpdated = 2
    /\ KeysOf(stored.interests) = {"Personal"}
    /\ Len(stored.interests.val["Personal"]) = 3

-----------------------------------------------------------------------------
(* Properties of the migrator *)

\* C6: for a legacy flat list with any classifier map, migrating the migrated
\* interests and interestTypes gives the interests and interestTypes of the
\* first migration.
C6_MigrationIdempotent == migStage = 2 => migTwice = migOnce

\* a list of work and personal interests has been migrated twice
C6_Witness ==
    /\ migStage = 2
    /\ migInput.interests.val = <<"Chess", "Docker", "Chess">>
    /\ Lookup(migInput.interestTypes, "Docker") = "work"
    /\ KeysOf(migOnce.interests) = {"Personal", "Work"}
    /\ KeysOf(migTwice.interestTypes) = {"Personal", "Work"}

\* the items of list whose classifier in types is "work", and the others
WorkItems(list, types) ==
    LET isWork(interest) == Lookup(types, interest) = "work"
    IN  SelectSeq(list, isWork)

PersonalItems(list, types) ==
    LET isOther(interest) == Lookup(types, interest) # "work"
    IN  SelectSeq(list, isOther)

\* C7: a non-empty legacy list is migrated to the map with Work -> the items
\* whose legacy classifier is "work" and Personal -> the other items, each in
\* the order of the list and neither present when empty; [Chess, Docker] with
\* {Docker: work} becomes {Personal: [Chess], Work: [Docker]} with
\* interestTypes {Personal: personal, Work: work}.
C7_MigrationGroups ==
    (migStage >= 1 /\ Len(migInput.interests.val) > 0) =>
        LET list == migInput.interests.val
            types == migInput.interestTypes
            work == WorkItems(list, types)
            personal == PersonalItems(list, types)
            groups == migOnce.interests
        IN  /\ groups.kind = "object"
            /\ ("Work" \in KeysOf(groups)) = (work # <<>>)
            /\ ("Personal" \in KeysOf(groups)) = (personal # <<>>)
            /\ KeysOf(groups) \subseteq {"Work", "Personal"}
            /\ work # <<>> => groups.val["Work"] = work
            /\ personal # <<>> => groups.val["Personal"] = personal
            /\ \A c \in KeysOf(groups) : Len(groups.val[c]) > 0
            /\ (list = <<"Chess", "Docker">> /\ types = Obj(OneKey("Docker", "work"))) =>
                  /\ groups = Obj(TwoKeys("Personal", <<"Chess">>, "Work", <<"Docker">>))
                  /\ migOnce.interestTypes =
                        Obj(TwoKeys("Personal", "personal", "Work", "work"))

\* [Chess, Docker] with {Docker: work} has been migrated
C7_Witness ==
    /\ migStage = 1
    /\ migInput.interests.val = <<"Chess", "Docker">>
    /\ migInput.interestTypes = Obj(OneKey("Docker", "work"))
    /\ migOnce.interests.val["Work"] = <<"Docker">>

-----------------------------------------------------------------------------
(* Properties of the preset matcher *)

\* the test detectActivePreset makes on one preset
Matches(cfg, preset) ==
    /\ cfg.layout = preset.layout
    /\ JoinedTypes(Field(cfg, "sections")) = JoinedTypes(Arr(preset.sections))
    /\ JoinedTypes(Field(cfg, "sidebar")) = JoinedTypes(Arr(preset.sidebar))

MatchingPositions == {i \in 1 .. Len(presets) : Matches(config, presets[i])}

\* C8: detectActivePreset returns the id of the first preset of the catalog,
\* in catalog order, that matches the page config, and null when none does.
C8_FirstMatchInCatalogOrder ==
    activePresetId # "pending" =>
        IF MatchingPositions = {} THEN activePresetId = NoPreset
        ELSE \E i \in MatchingPositions :
                /\ \A j \in MatchingPositions : i <= j
                /\ activePresetId = presets[i].id

\* two presets with different ids match the config, the result is the first
C8_Witness ==
    /\ activePresetId # "pending"
    /\ MatchingPositions = {1, 2}
    /\ presets[1].id # presets[2].id
    /\ activePresetId = presets[1].id

-----------------------------------------------------------------------------
(* Properties of the service: saves, export files, reads and faults *)

\* the operations that persist the page config
PageCalls == {"pageSave", "applyPreset", "saveIdentity", "saveConfig"}

\* the operations that only read
ReadCalls == {"getData", "getPageConfig"}

\* the store the last call works on
StoreOfCall == IF last.call.op \in PageCalls THEN pageStored ELSE stored

\* the export file the last call works on
FileOfCall == IF last.call.op \in PageCalls THEN pageFile ELSE cvFile

\* file is the document without its _id, field by field
Exported(file, document) ==
    /\ DOMAIN file = (DOMAIN document) \ {"_id"}
    /\ \A f \in DOMAIN file : file[f] = document[f]

\* C14: a failure to write the export file during a save of the profile or of
\* the page config is not propagated: every save that wrote the store
\* completes and returns the stamped document it persisted.
C14_FileFailureIsSwallowed ==
    last.saved =>
        /\ last.outcome = "ok"
        /\ last.returned = StoreOfCall

\* C15: when the persistence backend fails, the caller receives a failure
\* that differs from every successful outcome: a repository call rejects, a
\* page handler answers with the error page, and a read over data.json or
\* page.json answers differently than it does for an absent document.
C15_BackendFailureIsDistinguishable ==
    (last.outcome = "error" /\ ~last.saved) =>
        /\ last.call.op \in PageCalls \ {"saveConfig"} => response.kind = "error"
        /\ last.call.op \notin PageCalls \cup ReadCalls =>
              last.returned = Rejected("backend")
        /\ Called("getData") => response # Json(getDefaultCvData)
        /\ Called("getPageConfig") => response # Json(NullField)

\* C17: after every successful save the export file (cv.json, cv-page.json)
\* is the persisted document without its _id, and a save whose write on the
\* store fails leaves the export file as it was.
C17_ExportFileFollowsStore ==
    /\ (last.saved /\ last.outcome = "ok") => Exported(FileOfCall, StoreOfCall)
    /\ (~last.saved /\ last.returned = Rejected("backend")) =>
          /\ FileOfCall = last.fileBefore
          /\ StoreOfCall = last.before

\* an item was added to a stored profile and cv.json was rewritten
C17_Witness ==
    /\ Called("addToSection")
    /\ last.saved
    /\ last.outcome = "ok"
    /\ last.before # null
    /\ cvFile # last.fileBefore
    /\ Exported(cvFile, stored)

\* C18: without a fault, data.json answers the all-defaults document
\* (lastUpdated null) when no profile is stored and the stored document
\* without _id otherwise; page.json answers null when no page config is
\* stored and the stored config without _id otherwise; a read changes
\* neither store nor export file.
C18_ReadsAnswerTheStore ==
    /\ (Called("getData") /\ last.outcome = "ok") =>
          /\ response.kind = "json"
          /\ IF stored = null
             THEN /\ response.body = getDefaultCvData
                  /\ response.body.lastUpdated = NoStamp
             ELSE Exported(response.body, stored)
    /\ (Called("getPageConfig") /\ last.outcome = "ok") =>
          /\ response.kind = "json"
          /\ IF pageStored = null THEN response.body = NullField
             ELSE Exported(response.body, pageStored)
    /\ last.call.op \in ReadCalls =>
          /\ stored = last.before.cv
          /\ pageStored = last.before.page
          /\ cvFile = last.fileBefore.cv
          /\ pageFile = last.fileBefore.page

\* data.json was read while a profile is stored
C18_Witness ==
    /\ Called("getData")
    /\ last.outcome = "ok"
    /\ stored # null
    /\ response.body.interests = stored.interests
    /\ "_id" \in DOMAIN stored

\* the ids of the catalog
PresetIdsOfCatalog == {getCvPresets[i].id : i \in DOMAIN getCvPresets}

\* C19: applyPreset with an id that is not in the catalog answers with a
\* rejection that differs from the answer of a success, saves nothing and
\* leaves the stored page config and cv-page.json as they were.
C19_UnknownPresetIsRejected ==
    (Called("applyPreset") /\ last.call.presetId \notin PresetIdsOfCatalog) =>
        /\ response = Redirect("page?error=unknown-preset")
        /\ response # Redirect("page?saved=1")
        /\ last.outcome = "rejected"
        /\ ~last.saved
        /\ pageStored = last.before
        /\ pageFile = last.fileBefore

\* an unknown id was submitted while a page config is stored
C19_Witness ==
    /\ Called("applyPreset")
    /\ last.call.presetId = "bogus"
    /\ pageStored # null
    /\ pageFile # NoFile
    /\ response.kind = "redirect"

\* C20 as stated: whichever operation persisted the page config (save,
\* applyPreset, saveIdentity or saveConfig itself), its layout is one of
\* single-column, two-column, full-width-hero.
C20_PersistedLayoutIsValid ==
    pageStored # null => pageStored.layout \in validLayouts

\* C20 as the code has it: save persists the submitted layout when it is one
\* of the three and single-column otherwise; applyPreset persists one of the
\* three; saveIdentity persists the stored layout again (single-column when
\* there is none); saveConfig itself persists any non-empty layout as it is
\* given and single-column for a missing or empty one.
C20_LayoutPersistedPerRoute ==
    last.saved =>
        /\ Called("pageSave") =>
              /\ pageStored.layout \in validLayouts
              /\ pageStored.layout =
                    IF LayoutOf(last.call.body) \in validLayouts
                    THEN LayoutOf(last.call.body) ELSE "single-column"
        /\ Called("applyPreset") => pageStored.layout \in validLayouts
        /\ Called("saveIdentity") =>
              /\ pageStored.layout =
                    IF last.before = null \/ last.before.layout \in {undefined, ""}
                    THEN "single-column" ELSE last.before.layout
              /\ (last.before = null \/ last.before.layout \in validLayouts) =>
                    pageStored.layout \in validLayouts
        /\ Called("saveConfig") =>
              pageStored.layout =
                    IF LayoutOf(last.call.config) \in {undefined, ""}
                    THEN "single-column" ELSE LayoutOf(last.call.config)

\* save was given the layout grid and single-column was persisted
C20_Witness ==
    /\ Called("pageSave")
    /\ last.saved
    /\ LayoutOf(last.call.body) = "grid"
    /\ pageStored.layout = "single-column"

-----------------------------------------------------------------------------
(* Properties of two requests in flight *)

\* both requests loaded before either saved, and both have saved
BothLoadedFirst ==
    /\ Len(raceLog) = 4
    /\ raceLog[1].step = "load"
    /\ raceLog[2].step = "load"

\* C16: when two mutations both load the profile before either saves, neither
\* is rejected, blocked or retried; after both saves the store holds exactly
\* the document the last save wrote, which is what the last request alone
\* would have written on the loaded profile: the change of the other request
\* is absent, even when it was in a different section.
C16_LastSaveWins ==
    /\ \A p \in Requests : racePc[p] = "loaded" => ENABLED RaceSave(p)
    /\ BothLoadedFirst =>
          LET winner == raceLog[4].request
          IN  /\ raceLog[3].step = "save" /\ raceLog[3].outcome = "ok"
              /\ raceLog[4].step = "save" /\ raceLog[4].outcome = "ok"
              /\ raceLog[3].request # winner
              /\ \A p \in Requests : racePc[p] = "done"
              /\ stored = raceLog[4].document
              /\ stored = cvDocument(Mutated(raceData[winner].call, raceLog[1].loaded), clock)

\* request 1 added an experience entry and request 2 a project; both loaded
\* first, request 2 saved last, and the experience entry is not stored
C16_Witness ==
    /\ BothLoadedFirst
    /\ raceLog[4].request = 2
    /\ raceData[1].call.op = "addToSection"
    /\ raceData[1].call.section = "experience"
    /\ raceData[2].call.op = "addToSection"
    /\ raceData[2].call.section = "projects"
    /\ stored.experience = cvDocument(raceLog[1].loaded, clock).experience
    /\ raceLog[3].document.experience # stored.experience
    /\ stored.projects = raceLog[4].document.projects

-----------------------------------------------------------------------------
(* Properties of the preset matcher on unvalidated types *)

\* the type values of list, an absent list being the empty one
TypeValues(list) == TypesOf(OrElse(list, Arr(<<>>)).val)

\* two sequences of type values are equal element by element
SameTypes(a, b) ==
    /\ Len(a) = Len(b)
    /\ \A i \in 1 .. Len(a) : Same(a[i], b[i])

\* layout, section types and sidebar types are equal element by element
MatchesExactly(cfg, preset) ==
    /\ cfg.layout = preset.layout
    /\ SameTypes(TypeValues(Field(cfg, "sections")), TypeValues(Arr(preset.sections)))
    /\ SameTypes(TypeValues(Field(cfg, "sidebar")), TypeValues(Arr(preset.sidebar)))

ExactPositions == {i \in 1 .. Len(presets) : MatchesExactly(config, presets[i])}

\* C21: a page config matches a preset iff layout, section types and sidebar
\* types are equal element by element, for every type value, also one with a
\* comma and a missing one: detectActivePreset returns the first preset that
\* is equal in this way and null when there is none.
C21_MatchIsElementwise ==
    activePresetId # "pending" =>
        IF ExactPositions = {} THEN activePresetId = NoPreset
        ELSE \E i \in ExactPositions :
                /\ \A j \in ExactPositions : i <= j
                /\ activePresetId = presets[i].id

-----------------------------------------------------------------------------
(* Properties of the calls on an ordered section *)

\* the last call is op on an ordered section that is held as a list
ListCall(op) ==
    /\ Called(op)
    /\ last.call.section \in OrderedSections
    /\ isArray(Loaded[last.call.section])

\* the call was given an index of an element of the list it loaded
IndexInList ==
    /\ ~last.call.index.nan
    /\ 0 <= last.call.index.n
    /\ last.call.index.n < Len(Loaded[last.call.section].val)

\* the call returned the document it persisted at the time of the call
PersistedAnew ==
    /\ last.saved
    /\ last.outcome = "ok"
    /\ stored.lastUpdated = clock
    /\ stored.lastUpdated # Loaded.lastUpdated

\* every content field but the section of the call is as it was loaded
OthersUnchanged ==
    \A f \in ContentFields \ {last.call.section} : Same(stored[f], Loaded[f])

\* every content field but the section of the call is as it was loaded, where
\* interests loaded as a legacy flat list are persisted, with their
\* interestTypes, in migrated category form
OthersUnchangedUpToMigration ==
    /\ \A f \in ContentFields \ {last.call.section, "interests", "interestTypes"} :
          Same(stored[f], Loaded[f])
    /\ IF isArray(Loaded.interests)
       THEN /\ stored.interests = migrateInterests(Loaded.interests, Loaded.interestTypes)
            /\ stored.interestTypes =
                  migrateInterestTypes(Loaded.interests, Loaded.interestTypes)
       ELSE /\ Same(stored.interests, Loaded.interests)
            /\ Same(stored.interestTypes, Loaded.interestTypes)

\* after is before with the element at the 0-based index i replaced by item
Replaced(before, after, i, item) ==
    /\ Len(after) = Len(before)
    /\ after[i + 1] = item
    /\ \A k \in (1 .. Len(before)) \ {i + 1} : after[k] = before[k]

\* the section of the call is persisted as Replaced says, or as it was loaded
\* when the index is no index of the list
UpdatedSection ==
    LET before == Loaded[last.call.section].val
        after == stored[last.call.section].val
    IN  IF IndexInList THEN Replaced(before, after, last.call.index.n, last.call.item)
        ELSE after = before

\* C22 as stated: updateItem persists the section with only the element at a
\* valid index replaced, and with identical content for a negative, too large
\* or non-numeric index; the document gets a new lastUpdated and every other
\* section is unchanged.
C22_UpdateAndNothingElse ==
    ListCall("updateInSection") =>
        /\ PersistedAnew
        /\ UpdatedSection
        /\ OthersUnchanged

\* C22: updateItem persists the section with only the element at a valid
\* index replaced, and as it was for a negative, too large or non-numeric
\* index; the document gets a new lastUpdated; every other section is
\* unchanged, except that interests held as a legacy flat list are persisted,
\* with their interestTypes, in migrated category form.
C22_UpdateAndMigration ==
    ListCall("updateInSection") =>
        /\ PersistedAnew
        /\ UpdatedSection
        /\ OthersUnchangedUpToMigration

\* the middle one of three entries has been replaced by another entry
C22_Witness ==
    /\ ListCall("updateInSection")
    /\ last.call.index = Num(1)
    /\ Loaded.experience.val = <<"e1", "e2", "e3">>
    /\ stored.experience.val = <<"e1", "e9", "e3">>

\* after is before without the element at the 0-based index i
Deleted(before, after, i) ==
    /\ Len(after) = Len(before) - 1
    /\ \A k \in 1 .. i : after[k] = before[k]
    /\ \A k \in (i + 1) .. Len(after) : after[k] = before[k + 1]

RemovedSection ==
    LET before == Loaded[last.call.section].val
        after == stored[last.call.section].val
    IN  IF IndexInList THEN Deleted(before, after, last.call.index.n)
        ELSE after = before

\* C23 as stated: removeItem persists the section without exactly the element
\* at a valid index, the others in their order, and unchanged for any other
\* index, without an error; every other section is unchanged.
C23_RemoveAndNothingElse ==
    ListCall("removeFromSection") =>
        /\ last.outcome = "ok"
        /\ last.saved
        /\ RemovedSection
        /\ OthersUnchanged

\* C23: removeItem persists the section without exactly the element at a
\* valid index, the others in their order, and unchanged for any other index,
\* without an error; every other section is unchanged, except that interests
\* held as a legacy flat list are persisted, with their interestTypes, in
\* migrated category form.
C23_RemoveAndMigration ==
    ListCall("removeFromSection") =>
        /\ last.outcome = "ok"
        /\ last.saved
        /\ RemovedSection
        /\ OthersUnchangedUpToMigration

\* the first of three entries has been removed
C23_Witness ==
    /\ ListCall("removeFromSection")
    /\ last.call.index = Num(0)
    /\ Loaded.experience.val = <<"e1", "e2", "e3">>
    /\ stored.experience.val = <<"e2", "e3">>

\* after is before with item behind its last element
Appended(before, after, item) ==
    /\ Len(after) = Len(before) + 1
    /\ \A k \in 1 .. Len(before) : after[k] = before[k]
    /\ after[Len(after)] = item

AppendedSection ==
    Appended(Loaded[last.call.section].val, stored[last.call.section].val, last.call.item)

\* C24 as stated: addItem persists the section with the item behind the
\* previous elements, an equal item being present or not, starting from the
\* all-empty default on an absent profile; every other section is unchanged.
C24_AppendAndNothingElse ==
    ListCall("addToSection") =>
        /\ last.saved
        /\ AppendedSection
        /\ OthersUnchanged

\* C24: addItem persists the section with the item behind the previous
\* elements, an equal item being present or not, starting from the all-empty
\* default on an absent profile; every other section is unchanged, except
\* that interests held as a legacy flat list are persisted, with their
\* interestTypes, in migrated category form.
C24_AppendAndMigration ==
    ListCall("addToSection") =>
        /\ last.saved
        /\ AppendedSection
        /\ last.before = null => Loaded = getDefaultCvData
        /\ OthersUnchangedUpToMigration

\* an entry equal to the first of three entries has been added
C24_Witness ==
    /\ ListCall("addToSection")
    /\ last.call.item = "e1"
    /\ Loaded.experience.val = <<"e1", "e2", "e3">>
    /\ stored.experience.val = <<"e1", "e2", "e3", "e1">>

-----------------------------------------------------------------------------
(* Properties of an edit onto an existing category *)

\* the last call is an edit of a category that exists, with a classifier, on
\* a document that holds both maps
EditOfExisting(op, itemsField, typesField) ==
    /\ Called(op)
    /\ last.call.newCategory # "__proto__"
    /\ last.call.type \in Classifiers
    /\ last.before # null
    /\ last.before[itemsField].kind = "object"
    /\ last.before[typesField].kind = "object"
    /\ last.call.oldCategory \in KeysOf(last.before[itemsField])

\* the edit renames a category onto another category that exists
RenamedOnto(op, itemsField, typesField) ==
    /\ EditOfExisting(op, itemsField, typesField)
    /\ last.call.oldCategory # last.call.newCategory
    /\ last.call.newCategory \in KeysOf(last.before[itemsField])

\* the edit keeps the name of the category
EditedInPlace(op, itemsField, typesField) ==
    /\ EditOfExisting(op, itemsField, typesField)
    /\ last.call.oldCategory = last.call.newCategory

\* the categories other than those of the call are as they were
OtherCategoriesKept(field) ==
    LET others == {last.call.oldCategory, last.call.newCategory}
    IN  /\ KeysOf(stored[field]) \ others = KeysOf(last.before[field]) \ others
        /\ \A c \in KeysOf(stored[field]) \ others :
              stored[field].val[c] = last.before[field].val[c]

\* the new category holds what the call supplied, the old one is gone when it
\* has another name
EditStored(itemsField, typesField) ==
    /\ last.saved
    /\ last.outcome = "ok"
    /\ last.call.oldCategory # last.call.newCategory =>
          /\ last.call.oldCategory \notin KeysOf(stored[itemsField])
          /\ last.call.oldCategory \notin KeysOf(stored[typesField])
    /\ last.call.newCategory \in KeysOf(stored[itemsField])
    /\ last.call.newCategory \in KeysOf(stored[typesField])
    /\ stored[itemsField].val[last.call.newCategory] = last.call.items
    /\ stored[typesField].val[last.call.newCategory] = last.call.type
    /\ OtherCategoriesKept(itemsField)
    /\ OtherCategoriesKept(typesField)

\* C25: an edit that renames a category onto another existing category
\* raises no error and persists a document without the old category in both
\* maps, with the new category holding the supplied items and classifier and
\* every other category unchanged; an edit with the same name changes only
\* that category.
C25_RenameOntoExisting ==
    /\ (RenamedOnto("editSkillCategory", "skills", "skillTypes")
          \/ EditedInPlace("editSkillCategory", "skills", "skillTypes"))
          => EditStored("skills", "skillTypes")
    /\ (RenamedOnto("editInterestCategory", "interests", "interestTypes")
          \/ EditedInPlace("editInterestCategory", "interests", "interestTypes"))
          => EditStored("interests", "interestTypes")

-----------------------------------------------------------------------------
(* Properties of a save of interests in map shape *)

\* v is a map: an object that is no list
IsMap(v) == v.kind = "object"

\* C26: when the interests being saved are a map they are persisted as they
\* are, and interestTypes is persisted as it is when it is a map and as the
\* empty map otherwise; so after every save the persisted interestTypes is a
\* map, as the persisted interests are.
C26_TypesOfMapInterestsAreMap ==
    (last.saved /\ IsMap(Field(last.data, "interests"))) =>
        /\ Same(stored.interests, last.data.interests)
        /\ IF IsMap(Field(last.data, "interestTypes"))
           THEN Same(stored.interestTypes, last.data.interestTypes)
           ELSE Same(stored.interestTypes, Obj(EmptyMap))
        /\ IsMap(stored.interestTypes)
        /\ stored.interests.kind = stored.interestTypes.kind

-----------------------------------------------------------------------------
(* Properties of the migrated type map *)

\* the classifier the migration reads for an item: personal when the legacy
\* map has none or an empty one
ClassifierOf(types, interest) ==
    IF types.kind = "object" /\ interest \in DOMAIN types.val
          /\ types.val[interest] \notin {"", undefined}
    THEN types.val[interest] ELSE "personal"

\* the category the migration assigns an item to
CategoryOf(types, interest) ==
    IF ClassifierOf(types, interest) = "work" THEN "Work" ELSE "Personal"

\* the positions of the items of list assigned to category
PositionsIn(list, types, category) ==
    {i \in 1 .. Len(list) : CategoryOf(types, list[i]) = category}

\* C27: for every non-empty legacy input the migrated interestTypes has
\* exactly the keys of the migrated interests, and maps each category to the
\* classifier of the last item of the list assigned to that category.
C27_TypesFollowLastItem ==
    (migStage >= 1 /\ Len(migInput.interests.val) > 0) =>
        LET list == migInput.interests.val
            types == migInput.interestTypes
        IN  /\ migOnce.interests.kind = "object"
            /\ migOnce.interestTypes.kind = "object"
            /\ KeysOf(migOnce.interestTypes) = KeysOf(migOnce.interests)
            /\ \A c \in KeysOf(migOnce.interestTypes) :
                  /\ PositionsIn(list, types, c) # {}
                  /\ \E i \in PositionsIn(list, types, c) :
                        /\ \A j \in PositionsIn(list, types, c) : j <= i
                        /\ migOnce.interestTypes.val[c] = ClassifierOf(types, list[i])

\* two items of one category with different classifiers, the later one's is kept
C27_Witness ==
    /\ migStage = 1
    /\ migInput.interests.val = <<"Chess", "Docker">>
    /\ migInput.interestTypes = Obj(TwoKeys("Chess", "hobby", "Docker", "personal"))
    /\ migOnce.interestTypes.val["Personal"] = "personal"
    /\ KeysOf(migOnce.interests) = {"Personal"}

-----------------------------------------------------------------------------
(* Properties of the page builder *)

\* the page builder was read directly after a preset had been applied and saved
ReadAfterPreset ==
    /\ Called("pageGet")
    /\ last.outcome = "ok"
    /\ last.previous.op = "applyPreset"
    /\ last.previousSaved

\* C28: after applyPreset(p.id) has succeeded for a preset p of the built-in
\* catalog, detectActivePreset on the stored page config returns p.id, no
\* earlier preset of the catalog matching it; the default config used when
\* nothing is stored is detected as professional-cv.
C28_AppliedPresetIsDetected ==
    /\ ReadAfterPreset =>
          /\ last.previous.presetId \in PresetIdsOfCatalog
          /\ response.config = pageStored
          /\ response.activePresetId = last.previous.presetId
    /\ (Called("pageGet") /\ last.outcome = "ok" /\ pageStored = null) =>
          /\ response.config = getDefaultConfig
          /\ response.activePresetId = "professional-cv"
    /\ \A i, j \in DOMAIN getCvPresets :
          i # j => ~Matches(presetConfig(getCvPresets[i], null), getCvPresets[j])

\* minimal, the last preset of the catalog, was applied over a stored config
\* and is the one detected
C28_Witness ==
    /\ ReadAfterPreset
    /\ last.previous.presetId = "minimal"
    /\ response.activePresetId = "minimal"
    /\ Len(pageStored.footer.val) > 0

\* the field of the stored page config is as it was before the call
FieldKept(name) == Same(pageStored[name], last.before[name])

\* C29: on an existing page config, save leaves the stored identity
\* unchanged, saveIdentity leaves layout, hero, sections, sidebar and footer
\* unchanged, and applyPreset leaves footer and identity unchanged.
C29_ForeignFieldsKept ==
    (last.saved /\ last.before # null) =>
        /\ Called("pageSave") => FieldKept("identity")
        /\ Called("saveIdentity") =>
              /\ pageStored.layout = last.before.layout
              /\ \A name \in {"hero", "sections", "sidebar", "footer"} : FieldKept(name)
        /\ Called("applyPreset") =>
              /\ FieldKept("footer")
              /\ FieldKept("identity")

\* the identity was saved over a config of two columns with a section and a
\* footer, and was changed
C29_Witness ==
    /\ Called("saveIdentity")
    /\ last.saved
    /\ last.before # null
    /\ last.before.layout = "two-column"
    /\ pageStored.layout = "two-column"
    /\ Len(pageStored.sections.val) > 0
    /\ Len(pageStored.footer.val) > 0
    /\ ~Same(pageStored.identity, last.before.identity)

-----------------------------------------------------------------------------
(* Properties of the startup task *)

\* the startup task and both requests have completed
AllCompleted == \A p \in DOMAIN racePc : racePc[p] = "done"

\* C30: the startup task never leaves a stale export: under every
\* interleaving of the task with the requests, once the task and all
\* requests have completed, cv.json is the stored profile without its _id.
C30_NoStaleExport ==
    AllCompleted =>
        /\ stored # null
        /\ Exported(cvFile, stored)

====
